---- MODULE Spec2Model ----
(***************************************************************************)
(* Chain-anchored access control: the three ink! contracts                 *)
(*   contracts/access_registry, contracts/policy_engine and                *)
(*   contracts/payment_integration                                         *)
(* as one state machine.  Each contract's storage struct is one variable   *)
(* (a record with the struct's fields; a Mapping is a function whose       *)
(* DOMAIN is the set of stored keys).  Each #[ink(message)] is an operator *)
(* that computes, from the caller and the arguments, the outcome of the    *)
(* whole call: the returned Result, the storage it leaves and the events   *)
(* it emits.  One action per message applies that outcome.                 *)
(***************************************************************************)
EXTENDS Integers, Sequences, FiniteSets, TLC

VARIABLES
    access_registry,      \* storage of AccessRegistry
    policy_engine,        \* storage of PolicyEngine
    payment_integration,  \* storage of PaymentIntegration
    attribute_roots,      \* the external Attribute Store: account -> published root
    block_number,         \* env().block_number()
    block_timestamp,      \* env().block_timestamp()
    deployer,             \* the caller of the three constructors
    overflow_checks,      \* the build profile: integer overflow aborts the call
    proof_check,          \* the last evaluation of verify_merkle_proof, <<>> if none
    last,                 \* the last call: contract, message, Result, Ok value
    events                \* the events emitted by the last call

vars == <<access_registry, policy_engine, payment_integration, attribute_roots,
          block_number, block_timestamp, deployer, overflow_checks, proof_check,
          last, events>>

-----------------------------------------------------------------------------
(* Bounds of the model *)

\* block heights explored: 0 .. MaxBlock
MaxBlock == 1
\* record_payment is explored while next_payment_id < MaxPayments
MaxPayments == 2
\* create_policy is explored while next_policy_id < MaxPolicies
MaxPolicies == 2
\* the u32 counters are scaled to 0 .. U32_MAX
U32_MAX == 3
\* the u64 block heights are scaled to 0 .. U64_MAX
U64_MAX == 1000

\* 20-byte account identifiers
Address == {1, 2}
\* Option<Address>::None
NoAddress == 0
\* the address the owner configures as attribute store / access registry
ContractAddress == {9}

-----------------------------------------------------------------------------
(* Strings: a string is known by its content tag and its byte length *)

MAX_STRING_LENGTH == 256
MAX_ATTRIBUTES == 50

Str(tag, len) == [tag |-> tag, len |-> len]
StrLen(s) == s.len

-----------------------------------------------------------------------------
(* Outcome of a call *)

Ok(storage, ret, emitted) ==
    [result |-> "Ok", ret |-> ret, storage |-> storage, events |-> emitted]
Err(storage, error) ==
    [result |-> error, ret |-> 0, storage |-> storage, events |-> <<>>]

\* the call aborts (a panic): the host reverts the storage and drops the events
Trap(storage) ==
    [result |-> "ContractTrapped", ret |-> 0, storage |-> storage, events |-> <<>>]

NoCall == [contract |-> "none", message |-> "new", result |-> "Ok", ret |-> 0]
Call(contract, message, out) ==
    [contract |-> contract, message |-> message, result |-> out.result, ret |-> out.ret]

-----------------------------------------------------------------------------
(* contracts/payment_integration *)

\* PaymentIntegration::new
PaymentIntegration_new(caller) ==
    [payments |-> <<>>,
     transaction_to_payment |-> <<>>,
     next_payment_id |-> 0,
     owner |-> caller,
     access_registry |-> NoAddress,
     authorized_processors |-> (caller :> TRUE)]

\* authorized_processors.get(account).unwrap_or(false)
is_authorized_processor(self, account) ==
    IF account \in DOMAIN self.authorized_processors
    THEN self.authorized_processors[account]
    ELSE FALSE

\* Mapping::insert
Insert(mapping, key, value) ==
    [k \in DOMAIN mapping \cup {key} |-> IF k = key THEN value ELSE mapping[k]]

\* Mapping::remove
Remove(mapping, key) ==
    [k \in DOMAIN mapping \ {key} |-> mapping[k]]


\* set_access_registry assigning the address to the owner field
PaymentIntegration_set_access_registry_Owner(self, caller, address) ==
    IF caller # self.owner THEN Err(self, "NotOwner")
    ELSE Ok([self EXCEPT !.owner = address], 0, <<>>)

PaymentIntegration_set_access_registry(self, caller, address) ==
    IF caller # self.owner THEN Err(self, "NotOwner")
    ELSE Ok([self EXCEPT !.access_registry = address], 0, <<>>)

\* authorize_processor as a switch: a second call withdraws the authorization
authorize_processor_Toggle(self, caller, processor) ==
    IF caller # self.owner THEN Err(self, "NotOwner")
    ELSE Ok([self EXCEPT !.authorized_processors =
                             Insert(@, processor, ~is_authorized_processor(self, processor))],
            0, <<[event |-> "ProcessorAuthorized", processor |-> processor]>>)

authorize_processor(self, caller, processor) ==
    IF caller # self.owner THEN Err(self, "NotOwner")
    ELSE Ok([self EXCEPT !.authorized_processors = Insert(@, processor, TRUE)], 0,
            <<[event |-> "ProcessorAuthorized", processor |-> processor]>>)

\* record_payment reading the id after the increment of the counter
record_payment_IncrementFirst(self, caller, account, provider, transaction_id, amount, entitlement_granted) ==
    IF ~is_authorized_processor(self, caller) THEN Err(self, "NotAuthorizedProcessor")
    ELSE IF StrLen(provider) > MAX_STRING_LENGTH \/ StrLen(transaction_id) > MAX_STRING_LENGTH
    THEN Err(self, "InputTooLong")
    ELSE IF transaction_id \in DOMAIN self.transaction_to_payment
    THEN Err(self, "PaymentAlreadyExists")
    ELSE IF self.next_payment_id = U32_MAX /\ overflow_checks THEN Trap(self)
    ELSE
        LET payment_id == (self.next_payment_id + 1) % (U32_MAX + 1)
            payment == [account |-> account,
                        provider |-> provider,
                        transaction_id |-> transaction_id,
                        amount |-> amount,
                        entitlement_granted |-> entitlement_granted,
                        status |-> "Pending",
                        timestamp |-> block_timestamp]
        IN  Ok([self EXCEPT !.payments = Insert(@, payment_id, payment),
                            !.transaction_to_payment = Insert(@, transaction_id, payment_id),
                            !.next_payment_id = payment_id],
               payment_id,
               <<[event |-> "PaymentRecorded", payment_id |-> payment_id,
                  account |-> account, payment_provider |-> provider,
                  transaction_id |-> transaction_id, amount |-> amount]>>)

\* record_payment without the look-up of transaction_id in the index
record_payment_NoDuplicateCheck(self, caller, account, provider, transaction_id, amount, entitlement_granted) ==
    IF ~is_authorized_processor(self, caller) THEN Err(self, "NotAuthorizedProcessor")
    ELSE IF StrLen(provider) > MAX_STRING_LENGTH \/ StrLen(transaction_id) > MAX_STRING_LENGTH
    THEN Err(self, "InputTooLong")
    ELSE IF self.next_payment_id = U32_MAX /\ overflow_checks THEN Trap(self)
    ELSE
        LET payment_id == self.next_payment_id
            payment == [account |-> account,
                        provider |-> provider,
                        transaction_id |-> transaction_id,
                        amount |-> amount,
                        entitlement_granted |-> entitlement_granted,
                        status |-> "Pending",
                        timestamp |-> block_timestamp]
        IN  Ok([self EXCEPT !.payments = Insert(@, payment_id, payment),
                            !.transaction_to_payment = Insert(@, transaction_id, payment_id),
                            !.next_payment_id = (@ + 1) % (U32_MAX + 1)],
               payment_id,
               <<[event |-> "PaymentRecorded", payment_id |-> payment_id,
                  account |-> account, payment_provider |-> provider,
                  transaction_id |-> transaction_id, amount |-> amount]>>)

\* record_payment looking up the transaction index before it checks the lengths
record_payment_DuplicateFirst(self, caller, account, provider, transaction_id, amount, entitlement_granted) ==
    IF ~is_authorized_processor(self, caller) THEN Err(self, "NotAuthorizedProcessor")
    ELSE IF transaction_id \in DOMAIN self.transaction_to_payment
    THEN Err(self, "PaymentAlreadyExists")
    ELSE IF StrLen(provider) > MAX_STRING_LENGTH \/ StrLen(transaction_id) > MAX_STRING_LENGTH
    THEN Err(self, "InputTooLong")
    ELSE IF self.next_payment_id = U32_MAX /\ overflow_checks THEN Trap(self)
    ELSE
        LET payment_id == self.next_payment_id
            payment == [account |-> account,
                        provider |-> provider,
                        transaction_id |-> transaction_id,
                        amount |-> amount,
                        entitlement_granted |-> entitlement_granted,
                        status |-> "Pending",
                        timestamp |-> block_timestamp]
        IN  Ok([self EXCEPT !.payments = Insert(@, payment_id, payment),
                            !.transaction_to_payment = Insert(@, transaction_id, payment_id),
                            !.next_payment_id = (@ + 1) % (U32_MAX + 1)],
               payment_id,
               <<[event |-> "PaymentRecorded", payment_id |-> payment_id,
                  account |-> account, payment_provider |-> provider,
                  transaction_id |-> transaction_id, amount |-> amount]>>)

record_payment(self, caller, account, provider, transaction_id, amount, entitlement_granted) ==
    IF ~is_authorized_processor(self, caller) THEN Err(self, "NotAuthorizedProcessor")
    ELSE IF StrLen(provider) > MAX_STRING_LENGTH \/ StrLen(transaction_id) > MAX_STRING_LENGTH
    THEN Err(self, "InputTooLong")
    ELSE IF transaction_id \in DOMAIN self.transaction_to_payment
    THEN Err(self, "PaymentAlreadyExists")
    \* next_payment_id += 1 at the limit: a panic with overflow checks, else a wrap
    ELSE IF self.next_payment_id = U32_MAX /\ overflow_checks THEN Trap(self)
    ELSE
        LET payment_id == self.next_payment_id
            payment == [account |-> account,
                        provider |-> provider,
                        transaction_id |-> transaction_id,
                        amount |-> amount,
                        entitlement_granted |-> entitlement_granted,
                        status |-> "Pending",
                        timestamp |-> block_timestamp]
        IN  Ok([self EXCEPT !.payments = Insert(@, payment_id, payment),
                            !.transaction_to_payment = Insert(@, transaction_id, payment_id),
                            !.next_payment_id = (@ + 1) % (U32_MAX + 1)],
               payment_id,
               <<[event |-> "PaymentRecorded", payment_id |-> payment_id,
                  account |-> account, payment_provider |-> provider,
                  transaction_id |-> transaction_id, amount |-> amount]>>)


\* complete_payment writing the payment before it checks the status
complete_payment_WriteFirst(self, caller, payment_id) ==
    IF ~is_authorized_processor(self, caller) THEN Err(self, "NotAuthorizedProcessor")
    ELSE IF payment_id \notin DOMAIN self.payments THEN Err(self, "PaymentNotFound")
    ELSE
        LET payment == [self.payments[payment_id] EXCEPT !.status = "Completed"]
            written == [self EXCEPT !.payments = Insert(@, payment_id, payment)]
        IN  IF self.payments[payment_id].status # "Pending"
            THEN Err(written, "InvalidStatus")
            ELSE Ok(written, 0,
                    <<[event |-> "PaymentCompleted", payment_id |-> payment_id,
                       account |-> payment.account,
                       entitlement_granted |-> payment.entitlement_granted]>>)

complete_payment(self, caller, payment_id) ==
    IF ~is_authorized_processor(self, caller) THEN Err(self, "NotAuthorizedProcessor")
    ELSE IF payment_id \notin DOMAIN self.payments THEN Err(self, "PaymentNotFound")
    ELSE IF self.payments[payment_id].status # "Pending" THEN Err(self, "InvalidStatus")
    ELSE
        LET payment == [self.payments[payment_id] EXCEPT !.status = "Completed"]
        IN  \* no call to access_registry.grant_entitlement(): the event is all
            Ok([self EXCEPT !.payments = Insert(@, payment_id, payment)], 0,
               <<[event |-> "PaymentCompleted", payment_id |-> payment_id,
                  account |-> payment.account,
                  entitlement_granted |-> payment.entitlement_granted]>>)

\* fail_payment with the precondition of complete_payment: Pending only
fail_payment_PendingOnly(self, caller, payment_id, reason) ==
    IF ~is_authorized_processor(self, caller) THEN Err(self, "NotAuthorizedProcessor")
    ELSE IF payment_id \notin DOMAIN self.payments THEN Err(self, "PaymentNotFound")
    ELSE IF self.payments[payment_id].status # "Pending" THEN Err(self, "InvalidStatus")
    ELSE
        LET payment == [self.payments[payment_id] EXCEPT !.status = "Failed"]
        IN  Ok([self EXCEPT !.payments = Insert(@, payment_id, payment)], 0,
               <<[event |-> "PaymentFailed", payment_id |-> payment_id,
                  reason |-> reason]>>)

\* fail_payment loading the payment before it checks the caller
fail_payment_LookupFirst(self, caller, payment_id, reason) ==
    IF payment_id \notin DOMAIN self.payments THEN Err(self, "PaymentNotFound")
    ELSE IF ~is_authorized_processor(self, caller) THEN Err(self, "NotAuthorizedProcessor")
    ELSE
        LET payment == [self.payments[payment_id] EXCEPT !.status = "Failed"]
        IN  Ok([self EXCEPT !.payments = Insert(@, payment_id, payment)], 0,
               <<[event |-> "PaymentFailed", payment_id |-> payment_id,
                  reason |-> reason]>>)

fail_payment(self, caller, payment_id, reason) ==
    IF ~is_authorized_processor(self, caller) THEN Err(self, "NotAuthorizedProcessor")
    ELSE IF payment_id \notin DOMAIN self.payments THEN Err(self, "PaymentNotFound")
    ELSE
        LET payment == [self.payments[payment_id] EXCEPT !.status = "Failed"]
        IN  Ok([self EXCEPT !.payments = Insert(@, payment_id, payment)], 0,
               <<[event |-> "PaymentFailed", payment_id |-> payment_id,
                  reason |-> reason]>>)

\* refund_payment refusing only a payment that is already refunded
refund_payment_UnlessRefunded(self, caller, payment_id) ==
    IF ~is_authorized_processor(self, caller) THEN Err(self, "NotAuthorizedProcessor")
    ELSE IF payment_id \notin DOMAIN self.payments THEN Err(self, "PaymentNotFound")
    ELSE IF self.payments[payment_id].status = "Refunded" THEN Err(self, "InvalidStatus")
    ELSE
        LET payment == [self.payments[payment_id] EXCEPT !.status = "Refunded"]
        IN  Ok([self EXCEPT !.payments = Insert(@, payment_id, payment)], 0,
               <<[event |-> "PaymentRefunded", payment_id |-> payment_id]>>)

refund_payment(self, caller, payment_id) ==
    IF ~is_authorized_processor(self, caller) THEN Err(self, "NotAuthorizedProcessor")
    ELSE IF payment_id \notin DOMAIN self.payments THEN Err(self, "PaymentNotFound")
    ELSE IF self.payments[payment_id].status # "Completed" THEN Err(self, "InvalidStatus")
    ELSE
        LET payment == [self.payments[payment_id] EXCEPT !.status = "Refunded"]
        IN  \* no call to access_registry.revoke_entitlement()
            Ok([self EXCEPT !.payments = Insert(@, payment_id, payment)], 0,
               <<[event |-> "PaymentRefunded", payment_id |-> payment_id]>>)

\* Option<Payment>: <<>> is None, <<p>> is Some(p)
get_payment(self, payment_id) ==
    IF payment_id \in DOMAIN self.payments THEN <<self.payments[payment_id]>> ELSE <<>>

\* Option<u32>
get_payment_by_transaction(self, transaction_id) ==
    IF transaction_id \in DOMAIN self.transaction_to_payment
    THEN <<self.transaction_to_payment[transaction_id]>>
    ELSE <<>>

\* the inputs explored
Providers == {Str("apple", 5), Str("long", MAX_STRING_LENGTH + 1)}
TransactionIds == {Str("txn-123", 7), Str("txn-456", 7), Str("long", MAX_STRING_LENGTH + 1)}
\* enough distinct transaction ids to take next_payment_id past its limit
NumberedTransactionIds == {Str("txn-", 4 + n) : n \in 1 .. U32_MAX + 2}
\* a provider and a transaction id of exactly MAX_STRING_LENGTH bytes
MaxProvider == Str("max-provider", MAX_STRING_LENGTH)
MaxTransactionId == Str("max-txn", MAX_STRING_LENGTH)
Amounts == {1000}
EntitlementBytes == {2, 4}
PaymentIds == 0 .. MaxPayments
Reasons == {Str("declined", 8)}

\* a call of PaymentIntegration commits the outcome `out`
PaymentCall(message, out) ==
    /\ payment_integration' = out.storage
    /\ events' = out.events
    /\ last' = Call("payment_integration", message, out)
    /\ UNCHANGED <<access_registry, policy_engine, attribute_roots,
                   block_number, block_timestamp, deployer, overflow_checks,
                   proof_check>>

PI_set_access_registry ==
    \E caller \in Address, address \in ContractAddress :
        PaymentCall("set_access_registry",
                    PaymentIntegration_set_access_registry(payment_integration, caller, address))

PI_authorize_processor ==
    \E caller \in Address, processor \in Address :
        PaymentCall("authorize_processor",
                    authorize_processor(payment_integration, caller, processor))

PI_record_payment(cap, accounts, transaction_ids, levels) ==
    /\ payment_integration.next_payment_id < cap
    /\ \E caller \in Address, account \in accounts, provider \in Providers,
          transaction_id \in transaction_ids, amount \in Amounts,
          entitlement_granted \in levels :
            PaymentCall("record_payment",
                    record_payment(payment_integration, caller, account, provider,
                                       transaction_id, amount, entitlement_granted))

PI_complete_payment ==
    \E caller \in Address, payment_id \in PaymentIds :
        PaymentCall("complete_payment",
                    complete_payment(payment_integration, caller, payment_id))

PI_fail_payment ==
    \E caller \in Address, payment_id \in PaymentIds, reason \in Reasons :
        PaymentCall("fail_payment",
                    fail_payment(payment_integration, caller, payment_id, reason))

PI_refund_payment ==
    \E caller \in Address, payment_id \in PaymentIds :
        PaymentCall("refund_payment",
                    refund_payment(payment_integration, caller, payment_id))

\* the host produces the next block
AdvanceBlock ==
    /\ block_number < MaxBlock
    /\ block_number' = block_number + 1
    /\ block_timestamp' = block_timestamp + 1
    /\ UNCHANGED <<access_registry, policy_engine, payment_integration,
                   attribute_roots, deployer, overflow_checks, proof_check,
                   last, events>>

-----------------------------------------------------------------------------
(* contracts/policy_engine *)

\* PolicyEngine::new
PolicyEngine_new(caller) ==
    [policies |-> <<>>,
     next_policy_id |-> 0,
     owner |-> caller,
     access_registry |-> NoAddress,
     attribute_store |-> NoAddress]

PolicyEngine_set_access_registry(self, caller, address) ==
    IF caller # self.owner THEN Err(self, "NotOwner")
    ELSE Ok([self EXCEPT !.access_registry = address], 0, <<>>)

PolicyEngine_set_attribute_store(self, caller, address) ==
    IF caller # self.owner THEN Err(self, "NotOwner")
    ELSE Ok([self EXCEPT !.attribute_store = address], 0, <<>>)

\* for (key, value) in &required_attributes: some pair has an over-long field
AttributeTooLong(required_attributes) ==
    \E i \in 1 .. Len(required_attributes) :
        \/ StrLen(required_attributes[i][1]) > MAX_STRING_LENGTH
        \/ StrLen(required_attributes[i][2]) > MAX_STRING_LENGTH

\* create_policy rejecting MAX_ATTRIBUTES pairs and MAX_STRING_LENGTH bytes too
create_policy_AtLimit(self, caller, resource_id, required_attributes, min_entitlement) ==
    IF caller # self.owner THEN Err(self, "NotOwner")
    ELSE IF StrLen(resource_id) >= MAX_STRING_LENGTH THEN Err(self, "InputTooLong")
    ELSE IF Len(required_attributes) >= MAX_ATTRIBUTES THEN Err(self, "TooManyAttributes")
    ELSE IF AttributeTooLong(required_attributes) THEN Err(self, "InputTooLong")
    ELSE IF self.next_policy_id = U32_MAX /\ overflow_checks THEN Trap(self)
    ELSE
        LET policy_id == self.next_policy_id
            policy == [resource_id |-> resource_id,
                       required_attributes |-> required_attributes,
                       min_entitlement |-> min_entitlement,
                       active |-> TRUE]
        IN  Ok([self EXCEPT !.policies = Insert(@, policy_id, policy),
                            !.next_policy_id = (@ + 1) % (U32_MAX + 1)],
               policy_id,
               <<[event |-> "PolicyCreated", policy_id |-> policy_id,
                  resource_id |-> resource_id]>>)

create_policy(self, caller, resource_id, required_attributes, min_entitlement) ==
    IF caller # self.owner THEN Err(self, "NotOwner")
    ELSE IF StrLen(resource_id) > MAX_STRING_LENGTH THEN Err(self, "InputTooLong")
    ELSE IF Len(required_attributes) > MAX_ATTRIBUTES THEN Err(self, "TooManyAttributes")
    ELSE IF AttributeTooLong(required_attributes) THEN Err(self, "InputTooLong")
    \* next_policy_id += 1 at the limit: a panic with overflow checks, else a wrap
    ELSE IF self.next_policy_id = U32_MAX /\ overflow_checks THEN Trap(self)
    ELSE
        LET policy_id == self.next_policy_id
            policy == [resource_id |-> resource_id,
                       required_attributes |-> required_attributes,
                       min_entitlement |-> min_entitlement,
                       active |-> TRUE]
        IN  Ok([self EXCEPT !.policies = Insert(@, policy_id, policy),
                            !.next_policy_id = (@ + 1) % (U32_MAX + 1)],
               policy_id,
               <<[event |-> "PolicyCreated", policy_id |-> policy_id,
                  resource_id |-> resource_id]>>)

\* update_policy storing a policy under an id that has none
update_policy_Upsert(self, caller, policy_id, required_attributes, min_entitlement, active) ==
    IF caller # self.owner THEN Err(self, "NotOwner")
    ELSE IF Len(required_attributes) > MAX_ATTRIBUTES THEN Err(self, "TooManyAttributes")
    ELSE IF AttributeTooLong(required_attributes) THEN Err(self, "InputTooLong")
    ELSE
        LET policy == [resource_id |->
                           IF policy_id \in DOMAIN self.policies
                           THEN self.policies[policy_id].resource_id
                           ELSE Str("", 0),
                       required_attributes |-> required_attributes,
                       min_entitlement |-> min_entitlement,
                       active |-> active]
        IN  Ok([self EXCEPT !.policies = Insert(@, policy_id, policy)], 0,
               <<[event |-> "PolicyUpdated", policy_id |-> policy_id]>>)

update_policy(self, caller, policy_id, required_attributes, min_entitlement, active) ==
    IF caller # self.owner THEN Err(self, "NotOwner")
    ELSE IF Len(required_attributes) > MAX_ATTRIBUTES THEN Err(self, "TooManyAttributes")
    ELSE IF AttributeTooLong(required_attributes) THEN Err(self, "InputTooLong")
    ELSE IF policy_id \notin DOMAIN self.policies THEN Err(self, "PolicyNotFound")
    ELSE
        LET policy == [self.policies[policy_id] EXCEPT
                           !.required_attributes = required_attributes,
                           !.min_entitlement = min_entitlement,
                           !.active = active]
        IN  Ok([self EXCEPT !.policies = Insert(@, policy_id, policy)], 0,
               <<[event |-> "PolicyUpdated", policy_id |-> policy_id]>>)

delete_policy(self, caller, policy_id) ==
    IF caller # self.owner THEN Err(self, "NotOwner")
    ELSE Ok([self EXCEPT !.policies = Remove(@, policy_id)], 0,
            <<[event |-> "PolicyDeleted", policy_id |-> policy_id]>>)

\* Option<PolicyRule>
get_policy(self, policy_id) ==
    IF policy_id \in DOMAIN self.policies THEN <<self.policies[policy_id]>> ELSE <<>>

\* evaluate_access as the full implementation its comment announces would
\* start: an account without entitlement (level 0) is denied by a policy that
\* asks for a level
evaluate_access_MinEntitlement(self, account, policy_id) ==
    IF policy_id \in DOMAIN self.policies
    THEN LET policy == self.policies[policy_id] IN
         IF ~policy.active \/ policy.min_entitlement > 0
         THEN Ok(self, FALSE,
                 <<[event |-> "AccessDenied", account |-> account,
                    policy_id |-> policy_id, resource_id |-> policy.resource_id,
                    reason |-> Str("Policy inactive", 15)]>>)
         ELSE Ok(self, TRUE,
                 <<[event |-> "AccessGranted", account |-> account,
                    policy_id |-> policy_id, resource_id |-> policy.resource_id]>>)
    ELSE Ok(self, FALSE, <<>>)

\* a &self message: returns a bool, never an error, and leaves the storage alone
evaluate_access(self, account, policy_id) ==
    IF policy_id \in DOMAIN self.policies
    THEN LET policy == self.policies[policy_id] IN
         IF ~policy.active
         THEN Ok(self, FALSE,
                 <<[event |-> "AccessDenied", account |-> account,
                    policy_id |-> policy_id, resource_id |-> policy.resource_id,
                    reason |-> Str("Policy inactive", 15)]>>)
         ELSE Ok(self, TRUE,
                 <<[event |-> "AccessGranted", account |-> account,
                    policy_id |-> policy_id, resource_id |-> policy.resource_id]>>)
    ELSE Ok(self, FALSE, <<>>)

\* the inputs explored
ResourceIds == {Str("resource-123", 12), Str("long", MAX_STRING_LENGTH + 1)}
ShortPair == <<Str("opentdf.role", 12), Str("admin", 5)>>
LongPair == <<Str("opentdf.role", 12), Str("long", MAX_STRING_LENGTH + 1)>>
RequiredPairs == {<<>>, <<ShortPair>>, <<LongPair>>,
                  [i \in 1 .. MAX_ATTRIBUTES + 1 |-> ShortPair]}
\* inputs at the limits: a resource id and a value of exactly MAX_STRING_LENGTH
\* bytes, exactly MAX_ATTRIBUTES pairs, and too many pairs that are too long
MaxResourceId == Str("max", MAX_STRING_LENGTH)
MaxPair == <<Str("opentdf.role", 12), Str("max", MAX_STRING_LENGTH)>>
BoundaryPairs == {<<MaxPair>>, [i \in 1 .. MAX_ATTRIBUTES |-> ShortPair],
                  [i \in 1 .. MAX_ATTRIBUTES + 1 |-> LongPair]}
MinEntitlements == {1, 3}
PolicyIds == 0 .. MaxPolicies

\* a call of PolicyEngine commits the outcome `out`
PolicyCall(message, out) ==
    /\ policy_engine' = out.storage
    /\ events' = out.events
    /\ last' = Call("policy_engine", message, out)
    /\ UNCHANGED <<access_registry, payment_integration, attribute_roots,
                   block_number, block_timestamp, deployer, overflow_checks,
                   proof_check>>

PE_set_access_registry ==
    \E caller \in Address, address \in ContractAddress :
        PolicyCall("set_access_registry",
                   PolicyEngine_set_access_registry(policy_engine, caller, address))

PE_set_attribute_store ==
    \E caller \in Address, address \in ContractAddress :
        PolicyCall("set_attribute_store",
                   PolicyEngine_set_attribute_store(policy_engine, caller, address))

PE_create_policy(cap, resource_ids, attribute_lists, levels) ==
    /\ policy_engine.next_policy_id < cap
    /\ \E caller \in Address, resource_id \in resource_ids,
          required_attributes \in attribute_lists, min_entitlement \in levels :
            PolicyCall("create_policy",
                       create_policy(policy_engine, caller, resource_id,
                                     required_attributes, min_entitlement))

PE_update_policy(attribute_lists, levels) ==
    \E caller \in Address, policy_id \in PolicyIds,
       required_attributes \in attribute_lists, min_entitlement \in levels,
       active \in BOOLEAN :
        PolicyCall("update_policy",
                   update_policy(policy_engine, caller, policy_id,
                                 required_attributes, min_entitlement, active))

PE_delete_policy ==
    \E caller \in Address, policy_id \in PolicyIds :
        PolicyCall("delete_policy", delete_policy(policy_engine, caller, policy_id))

PE_evaluate_access ==
    \E account \in Address, policy_id \in PolicyIds :
        PolicyCall("evaluate_access", evaluate_access(policy_engine, account, policy_id))

-----------------------------------------------------------------------------
(* contracts/access_registry *)

\* Blake2-256 is modelled as collision-free: the Cantor pairing, folded over
\* the fields concatenated into the hashed buffer
Pair(x, y) == ((x + y) * (x + y + 1)) \div 2 + y

RECURSIVE Blake2x256(_)
Blake2x256(input) ==
    IF Len(input) = 1 THEN input[1]
    ELSE Pair(Blake2x256(SubSeq(input, 1, Len(input) - 1)), input[Len(input)])

\* AccessRegistry::new
AccessRegistry_new(caller) ==
    [entitlements |-> <<>>,
     sessions |-> <<>>,
     owner |-> caller,
     attribute_store |-> NoAddress,
     scope_requirements |-> <<>>]

EntitlementLevel == {"None", "Basic", "Premium", "Vip"}

level_value(level) ==
    CASE level = "None" -> 0
      [] level = "Basic" -> 1
      [] level = "Premium" -> 2
      [] level = "Vip" -> 3

\* grant_entitlement never lowering the level an account holds
grant_entitlement_KeepHigher(self, caller, account, level) ==
    IF caller # self.owner THEN Err(self, "NotOwner")
    ELSE IF account \in DOMAIN self.entitlements
            /\ level_value(self.entitlements[account]) > level_value(level)
    THEN Ok(self, 0,
            <<[event |-> "EntitlementGranted", account |-> account, level |-> level]>>)
    ELSE Ok([self EXCEPT !.entitlements = Insert(@, account, level)], 0,
            <<[event |-> "EntitlementGranted", account |-> account, level |-> level]>>)

grant_entitlement(self, caller, account, level) ==
    IF caller # self.owner THEN Err(self, "NotOwner")
    ELSE Ok([self EXCEPT !.entitlements = Insert(@, account, level)], 0,
            <<[event |-> "EntitlementGranted", account |-> account, level |-> level]>>)

revoke_entitlement(self, caller, account) ==
    IF caller # self.owner THEN Err(self, "NotOwner")
    ELSE Ok([self EXCEPT !.entitlements = Remove(@, account)], 0,
            <<[event |-> "EntitlementRevoked", account |-> account]>>)

\* self.entitlements.get(account).unwrap_or_default()
get_entitlement(self, account) ==
    IF account \in DOMAIN self.entitlements THEN self.entitlements[account] ELSE "None"

\* has_entitlement comparing with > for >=
has_entitlement_Strict(self, account, required_level) ==
    level_value(get_entitlement(self, account)) > level_value(required_level)

has_entitlement(self, account, required_level) ==
    level_value(get_entitlement(self, account)) >= level_value(required_level)

\* create_session refusing an expiry below the current block
create_session_FutureOnly(self, caller, session_id, eph_pub_key, scope_id, expires_at_block) ==
    IF caller # self.owner THEN Err(self, "NotOwner")
    ELSE IF expires_at_block < block_number THEN Err(self, "SessionExpired")
    ELSE
        LET grant == [eph_pub_key |-> eph_pub_key,
                      scope_id |-> scope_id,
                      expires_at_block |-> expires_at_block,
                      is_revoked |-> FALSE,
                      created_at_block |-> block_number]
        IN  Ok([self EXCEPT !.sessions = Insert(@, session_id, grant)], 0,
               <<[event |-> "SessionCreated", session_id |-> session_id,
                  expires_at_block |-> expires_at_block]>>)

create_session(self, caller, session_id, eph_pub_key, scope_id, expires_at_block) ==
    IF caller # self.owner THEN Err(self, "NotOwner")
    ELSE
        LET grant == [eph_pub_key |-> eph_pub_key,
                      scope_id |-> scope_id,
                      expires_at_block |-> expires_at_block,
                      is_revoked |-> FALSE,
                      created_at_block |-> block_number]
        IN  Ok([self EXCEPT !.sessions = Insert(@, session_id, grant)], 0,
               <<[event |-> "SessionCreated", session_id |-> session_id,
                  expires_at_block |-> expires_at_block]>>)

\* Option<SessionGrant>: <<>> is None, <<g>> is Some(g)
get_session(self, session_id) ==
    IF session_id \in DOMAIN self.sessions THEN <<self.sessions[session_id]>> ELSE <<>>


\* revoke_session looking the session up before it checks the caller
revoke_session_LookupFirst(self, caller, session_id) ==
    IF session_id \notin DOMAIN self.sessions THEN Err(self, "SessionNotFound")
    ELSE IF caller # self.owner THEN Err(self, "NotOwner")
    ELSE LET grant == [self.sessions[session_id] EXCEPT !.is_revoked = TRUE]
         IN  Ok([self EXCEPT !.sessions = Insert(@, session_id, grant)], 0,
                <<[event |-> "SessionRevoked", session_id |-> session_id]>>)

\* revoke_session refusing a session that is already revoked
revoke_session_OnceOnly(self, caller, session_id) ==
    IF caller # self.owner THEN Err(self, "NotOwner")
    ELSE IF session_id \in DOMAIN self.sessions /\ ~self.sessions[session_id].is_revoked
    THEN LET grant == [self.sessions[session_id] EXCEPT !.is_revoked = TRUE]
         IN  Ok([self EXCEPT !.sessions = Insert(@, session_id, grant)], 0,
                <<[event |-> "SessionRevoked", session_id |-> session_id]>>)
    ELSE Err(self, "SessionNotFound")

\* revoke_session deleting the entry instead of flagging it
revoke_session_Remove(self, caller, session_id) ==
    IF caller # self.owner THEN Err(self, "NotOwner")
    ELSE IF session_id \in DOMAIN self.sessions
    THEN Ok([self EXCEPT !.sessions = Remove(@, session_id)], 0,
            <<[event |-> "SessionRevoked", session_id |-> session_id]>>)
    ELSE Err(self, "SessionNotFound")

revoke_session(self, caller, session_id) ==
    IF caller # self.owner THEN Err(self, "NotOwner")
    ELSE IF session_id \in DOMAIN self.sessions
    THEN LET grant == [self.sessions[session_id] EXCEPT !.is_revoked = TRUE]
         IN  Ok([self EXCEPT !.sessions = Insert(@, session_id, grant)], 0,
                <<[event |-> "SessionRevoked", session_id |-> session_id]>>)
    ELSE Err(self, "SessionNotFound")

AccessRegistry_set_attribute_store(self, caller, address) ==
    IF caller # self.owner THEN Err(self, "NotOwner")
    ELSE Ok([self EXCEPT !.attribute_store = address], 0, <<>>)

\* set_scope_requirement adding the attributes to those already stored
set_scope_requirement_Append(self, caller, scope_id, required_attributes, active) ==
    IF caller # self.owner THEN Err(self, "NotOwner")
    ELSE
        LET previous == IF scope_id \in DOMAIN self.scope_requirements
                        THEN self.scope_requirements[scope_id].required_attributes
                        ELSE <<>>
            requirement == [required_attributes |-> previous \o required_attributes,
                            active |-> active]
        IN  Ok([self EXCEPT !.scope_requirements = Insert(@, scope_id, requirement)], 0,
               <<[event |-> "ScopeRequirementSet", scope_id |-> scope_id]>>)

\* set_scope_requirement revoking the sessions of the scope it rewrites
set_scope_requirement_RevokeSessions(self, caller, scope_id, required_attributes, active) ==
    IF caller # self.owner THEN Err(self, "NotOwner")
    ELSE
        LET requirement == [required_attributes |-> required_attributes,
                            active |-> active]
        IN  Ok([self EXCEPT !.scope_requirements = Insert(@, scope_id, requirement),
                            !.sessions =
                                [id \in DOMAIN @ |->
                                    IF @[id].scope_id = scope_id
                                    THEN [@[id] EXCEPT !.is_revoked = TRUE]
                                    ELSE @[id]]],
               0, <<[event |-> "ScopeRequirementSet", scope_id |-> scope_id]>>)

set_scope_requirement(self, caller, scope_id, required_attributes, active) ==
    IF caller # self.owner THEN Err(self, "NotOwner")
    ELSE
        LET requirement == [required_attributes |-> required_attributes,
                            active |-> active]
        IN  Ok([self EXCEPT !.scope_requirements = Insert(@, scope_id, requirement)], 0,
               <<[event |-> "ScopeRequirementSet", scope_id |-> scope_id]>>)

\* Option<ScopeRequirement>
get_scope_requirement(self, scope_id) ==
    IF scope_id \in DOMAIN self.scope_requirements
    THEN <<self.scope_requirements[scope_id]>>
    ELSE <<>>

\* the fold of verify_merkle_proof from level k on
RECURSIVE MerkleFold(_, _, _, _)

\* the fold taking only index 1 as "current on the right" (== 1 for != 0)
MerkleFold_OnlyOneIsRight(current, proof_path, proof_indices, k) ==
    IF k > Len(proof_path) THEN current
    ELSE MerkleFold(IF proof_indices[k] = 1
                    THEN Blake2x256(<<proof_path[k], current>>)
                    ELSE Blake2x256(<<current, proof_path[k]>>),
                    proof_path, proof_indices, k + 1)

MerkleFold(current, proof_path, proof_indices, k) ==
    IF k > Len(proof_path) THEN current
    ELSE MerkleFold(IF proof_indices[k] = 0
                    THEN Blake2x256(<<current, proof_path[k]>>)
                    ELSE Blake2x256(<<proof_path[k], current>>),
                    proof_path, proof_indices, k + 1)

\* verify_merkle_proof without the comparison of the lengths: the zip stops at
\* the end of the path
verify_merkle_proof_Zip(leaf, proof_path, proof_indices, root) ==
    MerkleFold(leaf, proof_path, proof_indices, 1) = root

verify_merkle_proof(leaf, proof_path, proof_indices, root) ==
    IF Len(proof_path) # Len(proof_indices) THEN FALSE
    ELSE MerkleFold(leaf, proof_path, proof_indices, 1) = root

compute_session_id(caller, scope_id) ==
    \* block_number().to_le_bytes(): the four bytes of the u32 block number
    Blake2x256(<<caller, scope_id, block_number>>)


\* FindProof taking the last proof with the hash (rfind for find)
FindProofLast(proofs, required_hash) ==
    LET hits == {i \in 1 .. Len(proofs) : proofs[i].attribute_hash = required_hash}
    IN  IF hits = {} THEN 0 ELSE CHOOSE i \in hits : \A j \in hits : i >= j

\* proofs.iter().find(|p| &p.attribute_hash == required_hash): the index of the
\* first proof with that hash, 0 when there is none
FindProof(proofs, required_hash) ==
    LET hits == {i \in 1 .. Len(proofs) : proofs[i].attribute_hash = required_hash}
    IN  IF hits = {} THEN 0 ELSE CHOOSE i \in hits : \A j \in hits : i <= j

\* the loop over requirement.required_attributes from position k on: the error
\* it returns, "Ok" when it runs to its end
RECURSIVE VerifyRequired(_, _, _, _)
VerifyRequired(required_attributes, proofs, root, k) ==
    IF k > Len(required_attributes) THEN "Ok"
    ELSE LET i == FindProof(proofs, required_attributes[k]) IN
         IF i = 0 THEN "MissingRequiredAttribute"
         ELSE IF ~verify_merkle_proof(proofs[i].attribute_hash, proofs[i].proof_path,
                                      proofs[i].proof_indices, root)
         THEN "InvalidProof"
         ELSE VerifyRequired(required_attributes, proofs, root, k + 1)


\* request_session looking at the proofs before the scope's active flag
request_session_ProofsFirst(self, caller, eph_pub_key, scope_id, duration_blocks, proofs, root) ==
    IF self.attribute_store = NoAddress THEN Err(self, "AttributeStoreNotConfigured")
    ELSE IF scope_id \notin DOMAIN self.scope_requirements THEN Err(self, "ScopeNotFound")
    ELSE
        LET requirement == self.scope_requirements[scope_id]
            verdict == VerifyRequired(requirement.required_attributes, proofs, root, 1)
        IN
        IF verdict # "Ok" THEN Err(self, verdict)
        ELSE IF ~requirement.active THEN Err(self, "ScopeInactive")
        ELSE IF block_number + duration_blocks > U64_MAX /\ overflow_checks
        THEN Trap(self)
        ELSE
            LET session_id == compute_session_id(caller, scope_id)
                expires_at_block == (block_number + duration_blocks) % (U64_MAX + 1)
                grant == [eph_pub_key |-> eph_pub_key,
                          scope_id |-> scope_id,
                          expires_at_block |-> expires_at_block,
                          is_revoked |-> FALSE,
                          created_at_block |-> block_number]
            IN  Ok([self EXCEPT !.sessions = Insert(@, session_id, grant)], session_id,
                   <<[event |-> "SessionRequested", session_id |-> session_id,
                      requester |-> caller, scope_id |-> scope_id,
                      expires_at_block |-> expires_at_block]>>)

request_session(self, caller, eph_pub_key, scope_id, duration_blocks, proofs, root) ==
    IF self.attribute_store = NoAddress THEN Err(self, "AttributeStoreNotConfigured")
    \* the root stored by attribute_store for the caller is not read
    ELSE IF scope_id \notin DOMAIN self.scope_requirements THEN Err(self, "ScopeNotFound")
    ELSE IF ~self.scope_requirements[scope_id].active THEN Err(self, "ScopeInactive")
    ELSE
        LET requirement == self.scope_requirements[scope_id]
            verdict == VerifyRequired(requirement.required_attributes, proofs, root, 1)
        IN
        IF verdict # "Ok" THEN Err(self, verdict)
        \* u64::from(block_number) + duration_blocks past the limit: a panic
        \* with overflow checks, else a wrap
        ELSE IF block_number + duration_blocks > U64_MAX /\ overflow_checks
        THEN Trap(self)
        ELSE
            LET session_id == compute_session_id(caller, scope_id)
                expires_at_block == (block_number + duration_blocks) % (U64_MAX + 1)
                grant == [eph_pub_key |-> eph_pub_key,
                          scope_id |-> scope_id,
                          expires_at_block |-> expires_at_block,
                          is_revoked |-> FALSE,
                          created_at_block |-> block_number]
            IN  Ok([self EXCEPT !.sessions = Insert(@, session_id, grant)], session_id,
                   <<[event |-> "SessionRequested", session_id |-> session_id,
                      requester |-> caller, scope_id |-> scope_id,
                      expires_at_block |-> expires_at_block]>>)

\* the inputs explored
LeafA == 1
LeafB == 2
\* the root of the two-leaf tree over LeafA and LeafB, and some other root
MerkleRoot == Blake2x256(<<LeafA, LeafB>>)
OtherRoot == 153
Roots == {MerkleRoot, OtherRoot}
ScopeIds == {3, 4}
RequiredLists == {<<>>, <<LeafA>>, <<LeafA, LeafB>>, <<LeafB, LeafA>>}
EphKeys == {33, 34}
Durations == {0, 100}
\* the longest duration of the type
MaxDuration == U64_MAX
Expiries == {0, 1000}

AttributeProof(attribute_hash, proof_path, proof_indices) ==
    [attribute_hash |-> attribute_hash, proof_path |-> proof_path,
     proof_indices |-> proof_indices]
\* the two proofs of the tree, a proof with a wrong sibling, a proof whose
\* path and indices differ in length
ProofA == AttributeProof(LeafA, <<LeafB>>, <<0>>)
ProofB == AttributeProof(LeafB, <<LeafA>>, <<1>>)
BadProofA == AttributeProof(LeafA, <<LeafA>>, <<0>>)
BadProofB == AttributeProof(LeafB, <<LeafA>>, <<1, 1>>)
AttributeProofs == {ProofA, ProofB, BadProofA, BadProofB}
\* every list of at most two proofs
ProofLists ==
    {<<>>} \cup {<<p>> : p \in AttributeProofs}
           \cup {<<p, q>> : p \in AttributeProofs, q \in AttributeProofs}

\* the sessions table is explored up to MaxSessions entries
MaxSessions == 2
\* ids passed to create_session: a free id, and one that request_session derives
SessionIds == {1, Blake2x256(<<2, 3, 0>>)}
\* every id a session can be stored under
AllSessionIds ==
    SessionIds \cup {Blake2x256(<<a, s, b>>) : a \in Address, s \in ScopeIds, b \in 0 .. MaxBlock}

\* inputs of verify_merkle_proof: paths and index lists of up to two levels,
\* with an index that is neither 0 nor 1, and the roots those paths lead to
ProofPaths == {<<>>} \cup {<<x>> : x \in {LeafA, LeafB}}
                     \cup {<<x, y>> : x \in {LeafA, LeafB}, y \in {LeafA, LeafB}}
ProofIndices == {<<>>} \cup {<<i>> : i \in 0 .. 2} \cup {<<i, j>> : i \in 0 .. 2, j \in 0 .. 2}
ProofRoots == {LeafA, MerkleRoot, Blake2x256(<<LeafB, LeafA>>),
               Blake2x256(<<MerkleRoot, LeafA>>), Blake2x256(<<LeafB, MerkleRoot>>),
               OtherRoot}

\* a call of AccessRegistry commits the outcome `out`
RegistryCall(message, out) ==
    /\ access_registry' = out.storage
    /\ events' = out.events
    /\ last' = Call("access_registry", message, out)
    /\ UNCHANGED <<policy_engine, payment_integration, attribute_roots,
                   block_number, block_timestamp, deployer, overflow_checks,
                   proof_check>>

\* Each action takes the sets its arguments are drawn from.

AR_grant_entitlement(accounts, levels) ==
    \E caller \in Address, account \in accounts, level \in levels :
        RegistryCall("grant_entitlement",
                     grant_entitlement(access_registry, caller, account, level))

AR_revoke_entitlement(accounts) ==
    \E caller \in Address, account \in accounts :
        RegistryCall("revoke_entitlement",
                     revoke_entitlement(access_registry, caller, account))

AR_create_session(keys, scopes, expiries) ==
    /\ Cardinality(DOMAIN access_registry.sessions) < MaxSessions
    /\ \E caller \in Address, session_id \in SessionIds, eph_pub_key \in keys,
          scope_id \in scopes, expires_at_block \in expiries :
            RegistryCall("create_session",
                         create_session(access_registry, caller, session_id,
                                        eph_pub_key, scope_id, expires_at_block))

AR_revoke_session ==
    \E caller \in Address, session_id \in AllSessionIds :
        RegistryCall("revoke_session",
                     revoke_session(access_registry, caller, session_id))

AR_set_attribute_store ==
    \E caller \in Address, address \in ContractAddress :
        RegistryCall("set_attribute_store",
                     AccessRegistry_set_attribute_store(access_registry, caller, address))

AR_set_scope_requirement(scopes, lists) ==
    \E caller \in Address, scope_id \in scopes,
       required_attributes \in lists, active \in BOOLEAN :
        RegistryCall("set_scope_requirement",
                     set_scope_requirement(access_registry, caller, scope_id,
                                           required_attributes, active))

AR_request_session(keys, durations, prooflists) ==
    /\ Cardinality(DOMAIN access_registry.sessions) < MaxSessions
    /\ \E caller \in Address, eph_pub_key \in keys, scope_id \in ScopeIds,
          duration_blocks \in durations, proofs \in prooflists, root \in Roots :
            RegistryCall("request_session",
                         request_session(access_registry, caller, eph_pub_key,
                                         scope_id, duration_blocks, proofs, root))

\* verify_merkle_proof is evaluated on some arguments
AR_verify_merkle_proof ==
    /\ \E leaf \in {LeafA, LeafB}, proof_path \in ProofPaths,
          proof_indices \in ProofIndices, root \in ProofRoots :
            proof_check' = <<[leaf |-> leaf, proof_path |-> proof_path,
                              proof_indices |-> proof_indices, root |-> root,
                              verified |-> verify_merkle_proof(leaf, proof_path,
                                                               proof_indices, root)]>>
    /\ UNCHANGED <<access_registry, policy_engine, payment_integration,
                   attribute_roots, block_number, block_timestamp, deployer,
                   overflow_checks, last, events>>

-----------------------------------------------------------------------------
(* The external Attribute Store: the root it has published for an account *)

\* Option<[u8; 32]>
AttributeStore_get_root(account) ==
    IF account \in DOMAIN attribute_roots THEN <<attribute_roots[account]>> ELSE <<>>

-----------------------------------------------------------------------------
(* Specifications *)

\* the deployer tool instantiates every contract from one account
Deployers == {1}

Init ==
    \E caller \in Deployers :
        /\ deployer = caller
        /\ overflow_checks \in BOOLEAN
        /\ proof_check = <<>>
        /\ access_registry = AccessRegistry_new(caller)
        /\ policy_engine = PolicyEngine_new(caller)
        /\ payment_integration = PaymentIntegration_new(caller)
        /\ attribute_roots = (1 :> OtherRoot @@ 2 :> MerkleRoot)
        /\ block_number = 0
        /\ block_timestamp = 0
        /\ last = NoCall
        /\ events = <<>>

\* Access Registry, the life of sessions: one scope is configured, with both
\* leaves required
NextAR ==
    \/ AR_create_session({33}, ScopeIds, {0})
    \/ AR_revoke_session
    \/ AR_set_attribute_store
    \/ AR_set_scope_requirement({3}, {<<LeafA, LeafB>>})
    \/ AR_request_session({33}, {100}, {<<>>, <<ProofA, ProofB>>})
    \/ AdvanceBlock

\* Access Registry, the gates and proofs of request_session: every scope,
\* requirement list and proof list, in one block
NextProofs ==
    \/ AR_set_attribute_store
    \/ AR_set_scope_requirement(ScopeIds, RequiredLists)
    \/ AR_request_session({33}, {100}, ProofLists)

\* Access Registry, the Merkle verifier, over a storage that changes
NextMerkle ==
    \/ AR_verify_merkle_proof
    \/ AR_set_attribute_store

\* Access Registry, the entitlement ladder
NextEntitlements ==
    \/ AR_grant_entitlement(Address, EntitlementLevel)
    \/ AR_revoke_entitlement(Address)
    \/ AR_create_session({33}, {3}, {0})
    \/ AR_revoke_session
    \/ AR_set_attribute_store

\* Policy Engine, the policy table with inputs at and past the limits
NextPE ==
    \/ PE_create_policy(MaxPolicies, ResourceIds \cup {MaxResourceId},
                        BoundaryPairs \ {<<MaxPair>>}, {1})
    \/ PE_update_policy({<<MaxPair>>, <<LongPair>>,
                         [i \in 1 .. MAX_ATTRIBUTES + 1 |-> ShortPair]}, {3})
    \/ PE_delete_policy
    \/ PE_evaluate_access

NextPI ==
    \/ PI_set_access_registry
    \/ PI_authorize_processor
    \/ PI_record_payment(MaxPayments, {2}, TransactionIds, EntitlementBytes)
    \/ PI_complete_payment
    \/ PI_fail_payment
    \/ PI_refund_payment
    \/ AdvanceBlock

\* The contracts share no storage and (in this code) never call one another,
\* so a state of the deployment is a tuple of states each contract reaches on
\* its own: Next runs one contract per behaviour.  Within the Access Registry
\* the entitlement messages write the entitlement table only and the other
\* messages never write it: a behaviour runs one of the two groups.
Runs(contract) == last.contract \in {"none", contract}
EntitlementMessages == {"grant_entitlement", "revoke_entitlement"}

\* Access Registry, one account's entitlement
NextLadder ==
    \/ AR_grant_entitlement({2}, {"Premium"})
    \/ AR_revoke_entitlement({2})

\* Policy Engine with one valid attribute list and one level
NextPolicies ==
    \/ PE_set_access_registry
    \/ PE_set_attribute_store
    \/ PE_create_policy(MaxPolicies, ResourceIds, RequiredPairs \ {<<>>}, {1})
    \/ PE_update_policy(RequiredPairs \ {<<>>}, {1})
    \/ PE_delete_policy
    \/ PE_evaluate_access

\* Payment Integration with one payer, one level and one transaction
NextPayments ==
    \/ PI_set_access_registry
    \/ PI_authorize_processor
    \/ PI_record_payment(MaxPayments, {2},
                         {Str("txn-123", 7), Str("long", MAX_STRING_LENGTH + 1)}, {2})
    \/ PI_complete_payment
    \/ PI_fail_payment
    \/ PI_refund_payment
    \/ AdvanceBlock

\* The two id counters up to and past the limit of their type
NextCounters ==
    \/ Runs("payment_integration")
          /\ PI_record_payment(U32_MAX + 1, {2}, NumberedTransactionIds, {2})
    \/ Runs("policy_engine")
          /\ \/ PE_create_policy(U32_MAX + 1, ResourceIds, {<<>>}, MinEntitlements)
             \/ PE_delete_policy

\* The composed system: the registry owner grants and revokes the payer's
\* entitlement while the payer's payments are recorded, completed, failed and
\* refunded
NextBridge ==
    \/ AR_grant_entitlement({2}, {"Premium"})
    \/ AR_revoke_entitlement({2})
    \/ PI_record_payment(MaxPayments, {2}, TransactionIds, {2})
    \/ PI_complete_payment
    \/ PI_fail_payment
    \/ PI_refund_payment

\* Payment Integration up to and past the limit of next_payment_id, the
\* payments recorded changing status: the n-th record_payment carries the
\* n-th transaction id, and two more payments are recorded than the counter
\* has values
NextWrap ==
    \/ Cardinality(DOMAIN payment_integration.transaction_to_payment) < U32_MAX + 2
          /\ PI_record_payment(U32_MAX + 1, {2},
                {Str("txn-", 5 + Cardinality(DOMAIN payment_integration
                                                        .transaction_to_payment))},
                {2})
    \/ PI_complete_payment
    \/ PI_fail_payment
    \/ PI_refund_payment

\* Access Registry, every message that writes, over one account, one scope
\* and one block
NextRegistry ==
    \/ AR_grant_entitlement({2}, {"Premium"})
    \/ AR_revoke_entitlement({2})
    \/ AR_create_session({33}, {3}, {1000})
    \/ AR_revoke_session
    \/ AR_set_attribute_store
    \/ AR_set_scope_requirement({3}, {<<>>, <<LeafA, LeafB>>})
    \/ AR_request_session({33}, {100}, {<<>>, <<ProofA, ProofB>>})

Next ==
    \/ Runs("access_registry") /\ last.message \notin EntitlementMessages /\ NextAR
    \/ Runs("access_registry") /\ last.message \in EntitlementMessages \cup {"new"}
          /\ NextLadder
    \/ Runs("policy_engine") /\ NextPolicies
    \/ Runs("payment_integration") /\ NextPayments

Spec == Init /\ [][Next]_vars
SpecAR == Init /\ [][NextAR]_vars
SpecProofs == Init /\ [][NextProofs]_vars
SpecEntitlements == Init /\ [][NextEntitlements]_vars
SpecPE == Init /\ [][NextPE]_vars
SpecPI == Init /\ [][NextPI]_vars
SpecMerkle == Init /\ [][NextMerkle]_vars
SpecBridge == Init /\ [][NextBridge]_vars
SpecCounters == Init /\ [][NextCounters]_vars
SpecWrap == Init /\ [][NextWrap]_vars
SpecRegistry == Init /\ [][NextRegistry]_vars

-----------------------------------------------------------------------------
(* Payment status machine *)

PermittedTransitions ==
    {<<"Pending", "Completed">>, <<"Pending", "Failed">>, <<"Completed", "Refunded">>}

\* C1: whenever a step changes the status of a payment, the change is one of
\* Pending->Completed, Pending->Failed, Completed->Refunded.
C1_OnlyPermittedTransitions ==
    [][\A id \in DOMAIN payment_integration.payments :
          LET old == payment_integration.payments[id].status
              new == payment_integration'.payments[id].status
          IN  old # new => <<old, new>> \in PermittedTransitions]_vars

-----------------------------------------------------------------------------
(* Sessions *)

\* C2: a session that is stored with is_revoked = true is, after any step,
\* still stored with is_revoked = true.
C2_RevokedStaysRevoked ==
    [][\A id \in DOMAIN access_registry.sessions :
          access_registry.sessions[id].is_revoked
              => /\ id \in DOMAIN access_registry'.sessions
                 /\ access_registry'.sessions[id].is_revoked]_vars

\* C3: a step that completes a payment leaves the payer, in the Access
\* Registry, with an entitlement of at least the level the payment grants.
C3_CompletionGrantsEntitlement ==
    [][\A id \in DOMAIN payment_integration.payments :
          LET before == payment_integration.payments[id]
              after == payment_integration'.payments[id]
          IN  (before.status # "Completed" /\ after.status = "Completed")
                  => level_value(get_entitlement(access_registry', after.account))
                         >= after.entitlement_granted]_vars

\* C4: in every reachable state, every request_session call that succeeds
\* stores its grant under an id that is not yet a key of the session table.
C4_FreshSessionId ==
    \A caller \in Address, eph_pub_key \in EphKeys, scope_id \in ScopeIds,
       duration_blocks \in Durations, proofs \in ProofLists, root \in Roots :
        LET out == request_session(access_registry, caller, eph_pub_key, scope_id,
                                   duration_blocks, proofs, root)
        IN  out.result = "Ok" => out.ret \notin DOMAIN access_registry.sessions

\* the requirement at position k is met: some proof carries its hash, and the
\* first that does verifies against the root
RequirementMet(required_attributes, proofs, root, k) ==
    \E i \in 1 .. Len(proofs) :
        /\ proofs[i].attribute_hash = required_attributes[k]
        /\ \A j \in 1 .. i - 1 : proofs[j].attribute_hash # required_attributes[k]
        /\ verify_merkle_proof(proofs[i].attribute_hash, proofs[i].proof_path,
                               proofs[i].proof_indices, root)

\* what request_session is to return once its gates are passed
ExpectedVerdict(required_attributes, proofs, root) ==
    LET failing == {k \in 1 .. Len(required_attributes) :
                        ~RequirementMet(required_attributes, proofs, root, k)}
    IN  IF failing = {} THEN "Ok"
        ELSE LET k == CHOOSE x \in failing : \A y \in failing : x <= y
             IN  IF \A i \in 1 .. Len(proofs) :
                        proofs[i].attribute_hash # required_attributes[k]
                 THEN "MissingRequiredAttribute"
                 ELSE "InvalidProof"

C6_RequestedGrant ==
    \A caller \in Address, eph_pub_key \in EphKeys, scope_id \in ScopeIds,
       duration_blocks \in Durations \cup {MaxDuration}, proofs \in {<<>>, <<ProofA, ProofB>>},
       root \in Roots :
        LET out == request_session(access_registry, caller, eph_pub_key, scope_id,
                                   duration_blocks, proofs, root)
        IN  out.result = "Ok"
            => get_session(out.storage, out.ret)
                 = <<[eph_pub_key |-> eph_pub_key,
                      scope_id |-> scope_id,
                      expires_at_block |-> block_number + duration_blocks,
                      is_revoked |-> FALSE,
                      created_at_block |-> block_number]>>

\* C7: in every reachable state, every request_session call that succeeds was
\* given the root the Attribute Store holds for the caller.
C7_RootMatchesStore ==
    \A caller \in Address, eph_pub_key \in EphKeys, scope_id \in ScopeIds,
       duration_blocks \in Durations, proofs \in {<<>>, <<ProofA, ProofB>>},
       root \in Roots :
        request_session(access_registry, caller, eph_pub_key, scope_id,
                        duration_blocks, proofs, root).result = "Ok"
            => AttributeStore_get_root(caller) = <<root>>

-----------------------------------------------------------------------------
(* Errors and ownership *)

\* C8: a call that returns an error leaves the storage of every contract as
\* it was and emits no event.
C8_ErrorsChangeNothing ==
    [][last'.result # "Ok"
          => /\ access_registry' = access_registry
             /\ policy_engine' = policy_engine
             /\ payment_integration' = payment_integration
             /\ events' = <<>>]_vars

\* a completed payment was refused a second completion
C8_Witness ==
    /\ last.message = "complete_payment"
    /\ last.result = "InvalidStatus"
    /\ \E id \in DOMAIN payment_integration.payments :
          payment_integration.payments[id].status = "Completed"

\* C9: in every reachable state, every owner-gated message of the Access
\* Registry and the Policy Engine called by another account than the owner
\* returns NotOwner, whatever its arguments.
C9_NotOwnerFirst ==
    /\ \A caller \in Address \ {access_registry.owner} :
        /\ \A account \in Address, level \in EntitlementLevel :
              grant_entitlement(access_registry, caller, account, level).result = "NotOwner"
        /\ \A account \in Address :
              revoke_entitlement(access_registry, caller, account).result = "NotOwner"
        /\ \A session_id \in SessionIds, eph_pub_key \in EphKeys, scope_id \in ScopeIds,
              expires_at_block \in Expiries :
              create_session(access_registry, caller, session_id, eph_pub_key,
                             scope_id, expires_at_block).result = "NotOwner"
        /\ \A session_id \in AllSessionIds :
              revoke_session(access_registry, caller, session_id).result = "NotOwner"
        /\ \A address \in ContractAddress :
              AccessRegistry_set_attribute_store(access_registry, caller, address).result
                  = "NotOwner"
        /\ \A scope_id \in ScopeIds, required_attributes \in RequiredLists,
              active \in BOOLEAN :
              set_scope_requirement(access_registry, caller, scope_id,
                                    required_attributes, active).result = "NotOwner"
    /\ \A caller \in Address \ {policy_engine.owner} :
        /\ \A resource_id \in ResourceIds, required_attributes \in RequiredPairs,
              min_entitlement \in MinEntitlements :
              create_policy(policy_engine, caller, resource_id, required_attributes,
                            min_entitlement).result = "NotOwner"
        /\ \A policy_id \in PolicyIds, required_attributes \in RequiredPairs,
              min_entitlement \in MinEntitlements, active \in BOOLEAN :
              update_policy(policy_engine, caller, policy_id, required_attributes,
                            min_entitlement, active).result = "NotOwner"
        /\ \A policy_id \in PolicyIds :
              delete_policy(policy_engine, caller, policy_id).result = "NotOwner"
        /\ \A address \in ContractAddress :
              /\ PolicyEngine_set_access_registry(policy_engine, caller, address).result
                     = "NotOwner"
              /\ PolicyEngine_set_attribute_store(policy_engine, caller, address).result
                     = "NotOwner"

\* revoke_session was refused with NotOwner while no session is stored, so
\* that the owner would have got SessionNotFound
C9_Witness ==
    /\ last.message = "revoke_session"
    /\ last.result = "NotOwner"
    /\ access_registry.sessions = <<>>
    /\ \A session_id \in AllSessionIds :
          revoke_session(access_registry, access_registry.owner, session_id).result
              = "SessionNotFound"

\* C10: the owner of each contract is the account that constructed it.
C10_OwnerIsDeployer ==
    /\ access_registry.owner = deployer
    /\ policy_engine.owner = deployer
    /\ payment_integration.owner = deployer

\* another account was made a processor, the registry address was set, and
\* a payment was recorded
C10_Witness ==
    /\ last.message = "record_payment"
    /\ last.result = "Ok"
    /\ is_authorized_processor(payment_integration, 2)
    /\ payment_integration.access_registry # NoAddress

-----------------------------------------------------------------------------
(* Identifiers *)

\* the step is a call of `message` on `contract` (the host's new block is not)
Called(contract, message) ==
    /\ block_number' = block_number
    /\ last'.contract = contract
    /\ last'.message = message

\* C11: a successful record_payment / create_policy returns the counter as it
\* was and leaves it one higher; every other step leaves the counter as it is.
\* The ids returned are therefore strictly increasing, none returned twice.
C11_CountersCountUp ==
    [][/\ IF Called("payment_integration", "record_payment") /\ last'.result = "Ok"
          THEN /\ last'.ret = payment_integration.next_payment_id
               /\ payment_integration'.next_payment_id
                      = payment_integration.next_payment_id + 1
          ELSE payment_integration'.next_payment_id
                   = payment_integration.next_payment_id
       /\ IF Called("policy_engine", "create_policy") /\ last'.result = "Ok"
          THEN /\ last'.ret = policy_engine.next_policy_id
               /\ policy_engine'.next_policy_id = policy_engine.next_policy_id + 1
          ELSE policy_engine'.next_policy_id = policy_engine.next_policy_id]_vars

-----------------------------------------------------------------------------
(* Recording payments *)

\* C12 as claimed: in every reachable state, record_payment called by an
\* authorized processor with an indexed transaction_id returns
\* PaymentAlreadyExists whatever the other arguments, and leaves the storage
\* as it is.
C12_DuplicateAlwaysAlreadyExists ==
    \A caller \in {a \in Address : is_authorized_processor(payment_integration, a)},
       account \in Address, provider \in Providers,
       transaction_id \in DOMAIN payment_integration.transaction_to_payment,
       amount \in Amounts \cup {0}, entitlement_granted \in EntitlementBytes :
        LET out == record_payment(payment_integration, caller, account, provider,
                                  transaction_id, amount, entitlement_granted)
        IN  /\ out.result = "PaymentAlreadyExists"
            /\ out.storage = payment_integration

\* C12 amended: in every reachable state, record_payment with an indexed
\* transaction_id fails and leaves payments, index and counter as they are,
\* emitting nothing; the error is PaymentAlreadyExists when the caller is an
\* authorized processor and the provider is within MAX_STRING_LENGTH, and the
\* error of the earlier gate otherwise, whatever account, amount and level.
C12_DuplicateRejected ==
    \A caller \in Address, account \in Address, provider \in Providers,
       transaction_id \in DOMAIN payment_integration.transaction_to_payment,
       amount \in Amounts \cup {0}, entitlement_granted \in EntitlementBytes :
        LET out == record_payment(payment_integration, caller, account, provider,
                                  transaction_id, amount, entitlement_granted)
        IN  /\ out.result =
                  IF ~is_authorized_processor(payment_integration, caller)
                  THEN "NotAuthorizedProcessor"
                  ELSE IF StrLen(provider) > MAX_STRING_LENGTH THEN "InputTooLong"
                  ELSE "PaymentAlreadyExists"
            /\ out.storage = payment_integration
            /\ out.events = <<>>

\* a second record_payment of a recorded transaction id was refused, the
\* first payment having been completed in between
C12_Witness ==
    /\ last.message = "record_payment"
    /\ last.result = "PaymentAlreadyExists"
    /\ payment_integration.next_payment_id = 1
    /\ payment_integration.payments[0].status = "Completed"

-----------------------------------------------------------------------------
(* Entitlements *)

\* C13: every account starts at None; a successful grant_entitlement(a, L)
\* leaves a at L, a successful revoke_entitlement(a) leaves a at None, and
\* every other account, and every account in any other step, keeps its level:
\* get_entitlement(a) is the level of the last grant to a not revoked since.
\* Granting a level a second time changes nothing.
C13_EntitlementIsLastGrant ==
    /\ \A a \in Address : get_entitlement(access_registry, a) = "None"
    /\ [][\A a \in Address :
            get_entitlement(access_registry', a) =
                IF /\ Called("access_registry", "grant_entitlement")
                   /\ last'.result = "Ok"
                   /\ events'[1].account = a
                THEN events'[1].level
                ELSE IF /\ Called("access_registry", "revoke_entitlement")
                        /\ last'.result = "Ok"
                        /\ events'[1].account = a
                THEN "None"
                ELSE get_entitlement(access_registry, a)]_vars
    /\ [](\A a \in Address, level \in EntitlementLevel :
            LET once == grant_entitlement(access_registry, access_registry.owner,
                                          a, level).storage
            IN  grant_entitlement(once, once.owner, a, level).storage = once)

\* the entitlement of one account was revoked while the other holds Vip
C13_Witness ==
    /\ last.message = "revoke_entitlement"
    /\ last.result = "Ok"
    /\ events[1].account = 2
    /\ get_entitlement(access_registry, 2) = "None"
    /\ access_registry.entitlements = (1 :> "Vip")

\* the ladder, lowest rung first
Ladder == <<"None", "Basic", "Premium", "Vip">>
Rung(level) == CHOOSE i \in 1 .. Len(Ladder) : Ladder[i] = level

\* C14: in every reachable state, for every account and required level,
\* has_entitlement is true exactly when the account's level is on the same or
\* a higher rung of None < Basic < Premium < Vip than the required one; with
\* None required it is true of every account, mapped or not.
C14_HasEntitlementIsRankOrder ==
    \A a \in Address :
        /\ \A r \in EntitlementLevel :
              has_entitlement(access_registry, a, r)
                  <=> Rung(get_entitlement(access_registry, a)) >= Rung(r)
        /\ has_entitlement(access_registry, a, "None")

\* one account has no mapping, the other holds Premium: Basic is met by it,
\* Vip is not
C14_Witness ==
    /\ DOMAIN access_registry.entitlements = {2}
    /\ get_entitlement(access_registry, 2) = "Premium"
    /\ has_entitlement(access_registry, 2, "Basic")
    /\ ~has_entitlement(access_registry, 2, "Vip")
    /\ has_entitlement(access_registry, 1, "None")

-----------------------------------------------------------------------------
(* The Merkle verifier *)

\* the fold of the claim: the hash after each level, from the leaf up
ReferenceFold(leaf, proof_path, proof_indices) ==
    LET current[k \in 0 .. Len(proof_path)] ==
            IF k = 0 THEN leaf
            ELSE IF proof_indices[k] = 0
                 THEN Blake2x256(<<current[k - 1], proof_path[k]>>)
                 ELSE Blake2x256(<<proof_path[k], current[k - 1]>>)
    IN  current[Len(proof_path)]

\* C15: whatever the storage, verify_merkle_proof(L, S, I, R) is
\* false when S and I differ in length and otherwise tells whether the fold
\* from L over S (current || sibling at index 0, sibling || current at any
\* other index) ends in R; with an empty proof it tells whether L = R.
C15_VerifierIsReferenceFold ==
    \A i \in 1 .. Len(proof_check) :
        LET c == proof_check[i] IN
        /\ c.verified =
              IF Len(c.proof_path) # Len(c.proof_indices) THEN FALSE
              ELSE ReferenceFold(c.leaf, c.proof_path, c.proof_indices) = c.root
        /\ (c.proof_path = <<>> /\ c.proof_indices = <<>>)
              => (c.verified <=> c.leaf = c.root)

\* a two-level proof with an index of 2 on the first level was accepted,
\* after the storage had been written
C15_Witness ==
    /\ proof_check # <<>>
    /\ proof_check[1].proof_indices = <<2, 0>>
    /\ proof_check[1].verified
    /\ access_registry.attribute_store # NoAddress

-----------------------------------------------------------------------------
(* Scope requirements *)

\* C16: in every reachable state, set_scope_requirement by the owner succeeds
\* and leaves get_scope_requirement(scope_id) at exactly the attributes given,
\* in the order given, and the flag given, whatever was stored before; the
\* requirement of every other scope is as it was.
C16_ScopeRequirementReplaced ==
    \A scope_id \in ScopeIds, required_attributes \in RequiredLists, active \in BOOLEAN :
        LET out == set_scope_requirement(access_registry, access_registry.owner,
                                         scope_id, required_attributes, active)
        IN  /\ out.result = "Ok"
            /\ get_scope_requirement(out.storage, scope_id)
                   = <<[required_attributes |-> required_attributes, active |-> active]>>
            /\ \A other \in ScopeIds \ {scope_id} :
                   get_scope_requirement(out.storage, other)
                       = get_scope_requirement(access_registry, other)

\* two scopes are stored, one with both leaves required and active, the other
\* with one leaf and inactive
C16_Witness ==
    /\ last.message = "set_scope_requirement"
    /\ last.result = "Ok"
    /\ get_scope_requirement(access_registry, 3)
          = <<[required_attributes |-> <<LeafA, LeafB>>, active |-> TRUE]>>
    /\ get_scope_requirement(access_registry, 4)
          = <<[required_attributes |-> <<LeafA>>, active |-> FALSE]>>

-----------------------------------------------------------------------------
(* Revoking and creating sessions *)

\* C17: in every reachable state, revoke_session by the owner returns
\* SessionNotFound for an id that is not stored; for a stored id, revoked or
\* not, it succeeds and leaves the grant with is_revoked = true and its other
\* fields as they were, and a second revocation succeeds and changes nothing.
C17_RevokeSession ==
    \A session_id \in AllSessionIds :
        LET out == revoke_session(access_registry, access_registry.owner, session_id)
            again == revoke_session(out.storage, out.storage.owner, session_id)
        IN  IF session_id \notin DOMAIN access_registry.sessions
            THEN out.result = "SessionNotFound"
            ELSE /\ out.result = "Ok"
                 /\ get_session(out.storage, session_id)
                        = <<[access_registry.sessions[session_id]
                                EXCEPT !.is_revoked = TRUE]>>
                 /\ again.result = "Ok"
                 /\ again.storage = out.storage

\* a session was revoked while another is stored unrevoked, and some id is
\* not stored
C17_Witness ==
    /\ last.message = "revoke_session"
    /\ last.result = "Ok"
    /\ \E a \in DOMAIN access_registry.sessions, b \in DOMAIN access_registry.sessions :
          /\ access_registry.sessions[a].is_revoked
          /\ ~access_registry.sessions[b].is_revoked
    /\ AllSessionIds \ DOMAIN access_registry.sessions # {}

\* C18: in every reachable state, create_session by the owner succeeds for
\* every id (stored or not), key, scope (stored, active or neither) and expiry
\* (below the current block or not), and get_session of the id then returns
\* the grant with those fields, is_revoked = false and created_at_block = the
\* current block.
C18_CreateSession ==
    \A session_id \in AllSessionIds, eph_pub_key \in EphKeys, scope_id \in ScopeIds,
       expires_at_block \in Expiries :
        LET out == create_session(access_registry, access_registry.owner, session_id,
                                  eph_pub_key, scope_id, expires_at_block)
        IN  /\ out.result = "Ok"
            /\ get_session(out.storage, session_id)
                   = <<[eph_pub_key |-> eph_pub_key,
                        scope_id |-> scope_id,
                        expires_at_block |-> expires_at_block,
                        is_revoked |-> FALSE,
                        created_at_block |-> block_number]>>

\* a session was created at block 1 with expiry 0, for a scope that has no
\* requirement stored
C18_Witness ==
    /\ last.message = "create_session"
    /\ last.result = "Ok"
    /\ \E id \in DOMAIN access_registry.sessions :
          /\ access_registry.sessions[id].created_at_block = 1
          /\ access_registry.sessions[id].expires_at_block = 0
          /\ access_registry.sessions[id].scope_id
                 \notin DOMAIN access_registry.scope_requirements

\* C19: no step removes a stored session; a new block leaves the session
\* table as it is, and a revocation leaves every expires_at_block as it is.
\* A session that get_session returns is therefore returned ever after, also
\* past its expiry and once revoked.
C19_SessionsPersist ==
    [][/\ \A id \in DOMAIN access_registry.sessions :
             /\ get_session(access_registry', id) # <<>>
             /\ Called("access_registry", "revoke_session")
                   => access_registry'.sessions[id].expires_at_block
                          = access_registry.sessions[id].expires_at_block
       /\ block_number' # block_number
             => access_registry'.sessions = access_registry.sessions]_vars

\* a revoked session is stored at a block past its expiry
C19_Witness ==
    \E id \in DOMAIN access_registry.sessions :
        /\ access_registry.sessions[id].is_revoked
        /\ block_number > access_registry.sessions[id].expires_at_block
        /\ get_session(access_registry, id) # <<>>

-----------------------------------------------------------------------------
(* The recorded payment *)

\* C20: in every reachable state, a record_payment that succeeds returns the
\* value next_payment_id has before the call (0 when nothing is recorded yet);
\* get_payment of that id then returns the payment with the account,
\* provider, transaction id, amount and level given, status Pending and the
\* current block time, and get_payment_by_transaction of the transaction id
\* returns the id.
C20_RecordedPayment ==
    \A caller \in Address, account \in Address, provider \in Providers,
       transaction_id \in TransactionIds, amount \in Amounts \cup {0},
       entitlement_granted \in EntitlementBytes :
        LET out == record_payment(payment_integration, caller, account, provider,
                                  transaction_id, amount, entitlement_granted)
        IN  out.result = "Ok" =>
              /\ out.ret = payment_integration.next_payment_id
              /\ payment_integration.payments = <<>> => out.ret = 0
              /\ get_payment(out.storage, out.ret)
                     = <<[account |-> account,
                          provider |-> provider,
                          transaction_id |-> transaction_id,
                          amount |-> amount,
                          entitlement_granted |-> entitlement_granted,
                          status |-> "Pending",
                          timestamp |-> block_timestamp]>>
              /\ get_payment_by_transaction(out.storage, transaction_id) = <<out.ret>>

\* a second payment was recorded, after the block time had advanced, and both
\* look-ups resolve to it
C20_Witness ==
    /\ last.message = "record_payment"
    /\ last.result = "Ok"
    /\ last.ret = 1
    /\ get_payment(payment_integration, 1) # <<>>
    /\ payment_integration.payments[1].timestamp = 1
    /\ payment_integration.payments[1].status = "Pending"
    /\ get_payment_by_transaction(payment_integration,
                                  payment_integration.payments[1].transaction_id) = <<1>>

-----------------------------------------------------------------------------
(* Payment Integration: who may call *)

\* C21: in every reachable state, every caller outside the authorized
\* processors gets NotAuthorizedProcessor from record_payment,
\* complete_payment, fail_payment and refund_payment whatever the arguments
\* (over-long strings, indexed transaction ids, ids never recorded), and every
\* caller other than the owner, authorized processor or not, gets NotOwner
\* from set_access_registry and authorize_processor.
C21_PaymentCallers ==
    /\ \A caller \in {a \in Address : ~is_authorized_processor(payment_integration, a)} :
        /\ \A account \in Address, provider \in Providers,
              transaction_id \in TransactionIds, amount \in Amounts,
              entitlement_granted \in EntitlementBytes :
              record_payment(payment_integration, caller, account, provider,
                             transaction_id, amount, entitlement_granted).result
                  = "NotAuthorizedProcessor"
        /\ \A payment_id \in PaymentIds :
              /\ complete_payment(payment_integration, caller, payment_id).result
                     = "NotAuthorizedProcessor"
              /\ refund_payment(payment_integration, caller, payment_id).result
                     = "NotAuthorizedProcessor"
              /\ \A reason \in Reasons :
                     fail_payment(payment_integration, caller, payment_id, reason).result
                         = "NotAuthorizedProcessor"
    /\ \A caller \in Address \ {payment_integration.owner} :
        /\ \A address \in ContractAddress :
              PaymentIntegration_set_access_registry(payment_integration, caller,
                                                     address).result = "NotOwner"
        /\ \A processor \in Address :
              authorize_processor(payment_integration, caller, processor).result
                  = "NotOwner"

\* an authorized processor that is not the owner was refused
\* authorize_processor, with a payment recorded
C21_Witness ==
    /\ last.message = "authorize_processor"
    /\ last.result = "NotOwner"
    /\ is_authorized_processor(payment_integration, 2)
    /\ payment_integration.owner # 2
    /\ payment_integration.payments # <<>>

-----------------------------------------------------------------------------
(* Completing and refunding *)

\* what a status-gated message is to do with payment_id: PaymentNotFound when
\* nothing is stored under it, InvalidStatus unless the status is `from`, and
\* otherwise success with the status set to `to` and nothing else changed
GatedTransition(out, payment_id, from, to) ==
    IF payment_id \notin DOMAIN payment_integration.payments
    THEN out.result = "PaymentNotFound"
    ELSE IF payment_integration.payments[payment_id].status # from
    THEN out.result = "InvalidStatus"
    ELSE /\ out.result = "Ok"
         /\ get_payment(out.storage, payment_id)
                = <<[payment_integration.payments[payment_id] EXCEPT !.status = to]>>

\* C22: in every reachable state, for every authorized processor and id,
\* complete_payment returns PaymentNotFound for an id not recorded,
\* InvalidStatus unless the payment is Pending, and otherwise sets it
\* Completed; refund_payment likewise with Completed and Refunded.
C22_CompleteAndRefund ==
    \A caller \in {a \in Address : is_authorized_processor(payment_integration, a)},
       payment_id \in PaymentIds :
        /\ GatedTransition(complete_payment(payment_integration, caller, payment_id),
                           payment_id, "Pending", "Completed")
        /\ GatedTransition(refund_payment(payment_integration, caller, payment_id),
                           payment_id, "Completed", "Refunded")

\* a refund was refused with InvalidStatus while one payment is Failed and
\* the other Refunded
C22_Witness ==
    /\ last.message = "refund_payment"
    /\ last.result = "InvalidStatus"
    /\ \E a \in DOMAIN payment_integration.payments, b \in DOMAIN payment_integration.payments :
          /\ payment_integration.payments[a].status = "Failed"
          /\ payment_integration.payments[b].status = "Refunded"

\* C23: a step that refunds a payment leaves the payer, in the Access
\* Registry, without entitlement (get_entitlement = None).
C23_RefundRevokesEntitlement ==
    [][\A id \in DOMAIN payment_integration.payments :
          LET before == payment_integration.payments[id]
              after == payment_integration'.payments[id]
          IN  (before.status # "Refunded" /\ after.status = "Refunded")
                  => get_entitlement(access_registry', after.account) = "None"]_vars

\* C24: create_policy called by the owner fails with InputTooLong when the
\* resource id is longer than MAX_STRING_LENGTH bytes, else with
\* TooManyAttributes when more than MAX_ATTRIBUTES pairs are given, else with
\* InputTooLong when a key or a value is longer than MAX_STRING_LENGTH bytes
\* (exactly MAX_STRING_LENGTH bytes and exactly MAX_ATTRIBUTES pairs are
\* accepted); otherwise it stores an active policy with the given resource id,
\* attributes and minimum entitlement under the value next_policy_id had
\* before the call, and returns that id.
C24_CreatePolicy ==
    \A resource_id \in ResourceIds \cup {MaxResourceId},
       required_attributes \in RequiredPairs \cup BoundaryPairs,
       min_entitlement \in MinEntitlements :
        LET out == create_policy(policy_engine, policy_engine.owner, resource_id,
                                 required_attributes, min_entitlement)
            too_long(pair) == StrLen(pair[1]) > 256 \/ StrLen(pair[2]) > 256
        IN  IF StrLen(resource_id) > 256
            THEN out.result = "InputTooLong"
            ELSE IF Len(required_attributes) > 50
            THEN out.result = "TooManyAttributes"
            ELSE IF \E i \in DOMAIN required_attributes :
                        too_long(required_attributes[i])
            THEN out.result = "InputTooLong"
            ELSE /\ out.result = "Ok"
                 /\ out.ret = policy_engine.next_policy_id
                 /\ get_policy(out.storage, out.ret)
                        = <<[resource_id |-> resource_id,
                             required_attributes |-> required_attributes,
                             min_entitlement |-> min_entitlement,
                             active |-> TRUE]>>

\* the owner created a second policy, with a resource id of exactly 256 bytes
\* and exactly 50 pairs
C24_Witness ==
    /\ last.message = "create_policy" /\ last.result = "Ok" /\ last.ret = 1
    /\ 1 \in DOMAIN policy_engine.policies
    /\ StrLen(policy_engine.policies[1].resource_id) = 256
    /\ Len(policy_engine.policies[1].required_attributes) = 50
    /\ policy_engine.policies[1].active
\* C25 as stated: update_policy called by the owner fails with PolicyNotFound
\* whenever no policy is stored under the id, whatever the attributes given.
C25_MissingAlwaysNotFound ==
    \A policy_id \in PolicyIds,
       required_attributes \in RequiredPairs \cup BoundaryPairs,
       min_entitlement \in MinEntitlements, active \in BOOLEAN :
        policy_id \notin DOMAIN policy_engine.policies
            => update_policy(policy_engine, policy_engine.owner, policy_id,
                             required_attributes, min_entitlement, active).result
                   = "PolicyNotFound"

\* C25, amended: update_policy called by the owner with at most 50 pairs, each
\* key and value of at most 256 bytes, fails with PolicyNotFound whenever no
\* policy is stored under the id; when update_policy succeeds the stored
\* policy has the new required attributes, min_entitlement and active flag and
\* the resource id it had before, and next_policy_id and all other policies
\* are unchanged.
C25_UpdatePolicy ==
    \A policy_id \in PolicyIds,
       required_attributes \in RequiredPairs \cup BoundaryPairs,
       min_entitlement \in MinEntitlements, active \in BOOLEAN :
        LET out == update_policy(policy_engine, policy_engine.owner, policy_id,
                                 required_attributes, min_entitlement, active)
            accepted ==
                /\ Len(required_attributes) <= 50
                /\ \A i \in DOMAIN required_attributes :
                       /\ StrLen(required_attributes[i][1]) <= 256
                       /\ StrLen(required_attributes[i][2]) <= 256
        IN  /\ (accepted /\ policy_id \notin DOMAIN policy_engine.policies)
                    => out.result = "PolicyNotFound"
            /\ out.result = "Ok" =>
                    /\ policy_id \in DOMAIN policy_engine.policies
                    /\ get_policy(out.storage, policy_id)
                           = <<[resource_id |->
                                    policy_engine.policies[policy_id].resource_id,
                                required_attributes |-> required_attributes,
                                min_entitlement |-> min_entitlement,
                                active |-> active]>>
                    /\ out.storage.next_policy_id = policy_engine.next_policy_id
                    /\ \A other \in PolicyIds \ {policy_id} :
                           get_policy(out.storage, other)
                               = get_policy(policy_engine, other)

\* the owner's update of a deleted policy failed with PolicyNotFound while
\* another policy is stored
C25_Witness ==
    /\ last.message = "update_policy" /\ last.result = "PolicyNotFound"
    /\ policy_engine.next_policy_id = 2
    /\ DOMAIN policy_engine.policies = {1}
\* policy_id was assigned by create_policy and deleted since: no policy is
\* stored under it, though the counter has passed it (next_policy_id, or an id
\* that holds a policy, is greater); only delete_policy removes a policy
Deleted(policy_id) ==
    /\ policy_id \notin DOMAIN policy_engine.policies
    /\ \/ policy_id < policy_engine.next_policy_id
       \/ \E other \in DOMAIN policy_engine.policies : other > policy_id

\* C26: after a successful delete_policy(id), get_policy(id) returns none and
\* evaluate_access(_, id) returns false in every later state: no later
\* create_policy is assigned that id.  Step by step: an id that was assigned
\* and deleted has no policy after the next step either.
C26_DeletedStaysDeleted ==
    [][\A policy_id \in 0 .. U32_MAX :
          Deleted(policy_id)
              => /\ get_policy(policy_engine', policy_id) = <<>>
                 /\ \A account \in Address :
                        evaluate_access(policy_engine', account, policy_id).ret
                            = FALSE]_vars

\* C27: evaluate_access(account, policy_id) returns false exactly when no
\* policy is stored under policy_id or the stored policy is inactive, and true
\* for every active stored policy, whatever the account, its entitlement, the
\* policy's required attributes and min_entitlement; it changes neither the
\* policy table nor next_policy_id.
C27_EvaluateAccess ==
    \A account \in Address, policy_id \in PolicyIds :
        LET out == evaluate_access(policy_engine, account, policy_id)
            stored == get_policy(policy_engine, policy_id)
        IN  /\ out.result = "Ok"
            /\ out.ret = FALSE <=> (stored = <<>> \/ ~stored[1].active)
            /\ out.ret = TRUE <=> (stored # <<>> /\ stored[1].active)
            /\ out.storage.policies = policy_engine.policies
            /\ out.storage.next_policy_id = policy_engine.next_policy_id

\* access was granted to an account without entitlement by an active policy
\* that asks for level 3 and one attribute, while another policy is inactive
C27_Witness ==
    /\ last.message = "evaluate_access" /\ last.ret = TRUE
    /\ events[1].event = "AccessGranted"
    /\ get_entitlement(access_registry, events[1].account) = "None"
    /\ policy_engine.policies[events[1].policy_id].min_entitlement = 3
    /\ policy_engine.policies[events[1].policy_id].required_attributes = <<MaxPair>>
    /\ \E other \in DOMAIN policy_engine.policies :
           ~policy_engine.policies[other].active
\* C28: request_session checks its gates in a fixed order before it looks at
\* any proof: with the attribute store unset it fails with
\* AttributeStoreNotConfigured, even when the scope is missing or inactive;
\* otherwise a missing scope gives ScopeNotFound; otherwise an inactive scope
\* gives ScopeInactive, even when the proofs supplied are missing or invalid;
\* otherwise the call returns none of the three.
C28_GateOrder ==
    \A caller \in Address, scope_id \in ScopeIds, proofs \in ProofLists,
       root \in Roots :
        LET result == request_session(access_registry, caller, 33, scope_id, 100,
                                      proofs, root).result
            requirement == get_scope_requirement(access_registry, scope_id)
        IN  IF access_registry.attribute_store = NoAddress
            THEN result = "AttributeStoreNotConfigured"
            ELSE IF requirement = <<>>
            THEN result = "ScopeNotFound"
            ELSE IF ~requirement[1].active
            THEN result = "ScopeInactive"
            ELSE result \notin {"AttributeStoreNotConfigured", "ScopeNotFound",
                                "ScopeInactive"}

\* with the store configured, a request for an inactive scope that requires
\* two attributes failed with ScopeInactive while the other scope is missing
C28_Witness ==
    /\ last.message = "request_session" /\ last.result = "ScopeInactive"
    /\ access_registry.attribute_store # NoAddress
    /\ \E scope_id \in ScopeIds :
           /\ get_scope_requirement(access_registry, scope_id) # <<>>
           /\ ~get_scope_requirement(access_registry, scope_id)[1].active
           /\ Len(get_scope_requirement(access_registry, scope_id)[1]
                       .required_attributes) = 2
    /\ \E scope_id \in ScopeIds :
           get_scope_requirement(access_registry, scope_id) = <<>>
\* a proof whose path and indices differ in length
Malformed(proof) == Len(proof.proof_path) # Len(proof.proof_indices)

C30_FailPayment ==
    \A caller \in Address, payment_id \in PaymentIds, reason \in Reasons :
        LET out == fail_payment(payment_integration, caller, payment_id, reason)
            before == get_payment(payment_integration, payment_id)
        IN  is_authorized_processor(payment_integration, caller) =>
                IF before # <<>>
                THEN /\ out.result = "Ok"
                     /\ get_payment(out.storage, payment_id)
                            = <<[before[1] EXCEPT !.status = "Failed"]>>
                ELSE out.result = "PaymentNotFound"

\* fail_payment succeeded on one payment while the other recorded payment is
\* Refunded, and it succeeds on that one too
C30_Witness ==
    /\ last.message = "fail_payment" /\ last.result = "Ok"
    /\ events[1].payment_id = 0
    /\ payment_integration.payments[0].status = "Failed"
    /\ 1 \in DOMAIN payment_integration.payments
    /\ payment_integration.payments[1].status = "Refunded"
    /\ fail_payment(payment_integration, payment_integration.owner, 1,
                    Str("declined", 8)).result = "Ok"
\* C31: record_payment called by an authorized processor fails with
\* InputTooLong exactly when provider or transaction_id is longer than 256
\* bytes (257 fails, 256 is accepted), also when the transaction_id is already
\* indexed: the lengths are checked after the caller and before the index.  A
\* caller that is no authorized processor gets NotAuthorizedProcessor whatever
\* the lengths.
C31_LengthCheck ==
    \A caller \in Address, provider \in Providers \cup {MaxProvider},
       transaction_id \in TransactionIds \cup {MaxTransactionId},
       entitlement_granted \in EntitlementBytes :
        LET out == record_payment(payment_integration, caller, 2, provider,
                                  transaction_id, 1000, entitlement_granted)
            too_long == StrLen(provider) > 256 \/ StrLen(transaction_id) > 256
            indexed == get_payment_by_transaction(payment_integration,
                                                  transaction_id) # <<>>
        IN  IF ~is_authorized_processor(payment_integration, caller)
            THEN out.result = "NotAuthorizedProcessor"
            ELSE /\ out.result = "InputTooLong" <=> too_long
                 /\ (indexed /\ ~too_long) => out.result = "PaymentAlreadyExists"
                 /\ (~indexed /\ ~too_long) => out.result = "Ok"

\* an authorized processor's record_payment failed with InputTooLong while a
\* transaction is indexed, and a record_payment with that transaction and an
\* over-long provider fails with InputTooLong
C31_Witness ==
    /\ last.message = "record_payment" /\ last.result = "InputTooLong"
    /\ get_payment_by_transaction(payment_integration, Str("txn-123", 7)) # <<>>
    /\ record_payment(payment_integration, payment_integration.owner, 2,
                      Str("long", 257), Str("txn-123", 7), 1000, 2).result
           = "InputTooLong"
\* C32: every payment stored in the payment table has entitlement_granted in
\* {0, 1, 2, 3}, the bytes of the four entitlement levels.
C32_EntitlementByteInRange ==
    \A payment_id \in DOMAIN payment_integration.payments :
        payment_integration.payments[payment_id].entitlement_granted \in 0 .. 3
\* C33: every evaluate_access call emits exactly one event, matching its
\* result: AccessGranted when it returns true, AccessDenied when it returns
\* false, for an inactive policy and for a missing policy alike.
C33_OneEventPerEvaluation ==
    \A account \in Address, policy_id \in PolicyIds :
        LET out == evaluate_access(policy_engine, account, policy_id)
        IN  /\ Len(out.events) = 1
            /\ out.events[1].event
                   = IF out.ret THEN "AccessGranted" ELSE "AccessDenied"
\* C34: Failed is absorbing and Pending is never re-entered: a payment whose
\* status is Failed is Failed after every step, and complete_payment and
\* refund_payment on it return InvalidStatus; a payment whose status is not
\* Pending is not Pending after any step.
C34_FailedAbsorbing ==
    [][\A id \in DOMAIN payment_integration.payments :
          LET old == payment_integration.payments[id].status
              new == payment_integration'.payments[id].status
          IN  /\ old = "Failed" =>
                     /\ new = "Failed"
                     /\ complete_payment(payment_integration,
                                         payment_integration.owner, id).result
                            = "InvalidStatus"
                     /\ refund_payment(payment_integration,
                                       payment_integration.owner, id).result
                            = "InvalidStatus"
              /\ old # "Pending" => new # "Pending"]_vars
\* the step is a successful call of `message` on payment_id
Succeeds(message, payment_id) ==
    /\ Called("payment_integration", message)
    /\ last'.result = "Ok"
    /\ events'[1].payment_id = payment_id

\* C35: each payment id has at most one successful complete_payment and at
\* most one successful refund_payment, and a successful refund_payment(id) is
\* preceded by a successful complete_payment(id), itself preceded by the
\* record_payment that returned id.  Step by step: a successful
\* complete_payment(id) finds the payment recorded and Pending and leaves it
\* Completed; a successful refund_payment(id) finds it Completed, which only
\* complete_payment writes, and leaves it Refunded; and a payment that has
\* been completed (Completed or Refunded) is never Pending again, nor
\* Completed again once it is Refunded.
C35_OneCompletionOneRefund ==
    [][\A id \in 0 .. U32_MAX :
          LET stored == id \in DOMAIN payment_integration.payments
              old == payment_integration.payments[id].status
              new == payment_integration'.payments[id].status
          IN  /\ Succeeds("complete_payment", id)
                     => stored /\ old = "Pending" /\ new = "Completed"
              /\ Succeeds("refund_payment", id)
                     => stored /\ old = "Completed" /\ new = "Refunded"
              /\ (stored /\ old # "Completed" /\ new = "Completed")
                     => Succeeds("complete_payment", id)
              /\ (stored /\ old \in {"Completed", "Refunded"}) => new # "Pending"
              /\ (stored /\ old = "Refunded") => new # "Completed"]_vars
StatusMessages == {"complete_payment", "fail_payment", "refund_payment"}

\* C36: after record_payment a payment's account, provider, transaction_id,
\* amount, entitlement_granted and timestamp never change: every step leaves
\* them as they are, and a step of complete_payment, fail_payment or
\* refund_payment changes at most the status of the payment it names and
\* leaves every other payment, the transaction index and next_payment_id
\* unchanged.
C36_RecordedFieldsFrozen ==
    [][/\ \A id \in DOMAIN payment_integration.payments :
             /\ id \in DOMAIN payment_integration'.payments
             /\ [payment_integration'.payments[id] EXCEPT !.status = "Pending"]
                    = [payment_integration.payments[id] EXCEPT !.status = "Pending"]
       /\ \A message \in StatusMessages :
             Called("payment_integration", message) =>
                 /\ DOMAIN payment_integration'.payments
                        = DOMAIN payment_integration.payments
                 /\ \A id \in DOMAIN payment_integration.payments :
                        payment_integration'.payments[id]
                                # payment_integration.payments[id]
                            => Succeeds(message, id)
                 /\ payment_integration'.transaction_to_payment
                        = payment_integration.transaction_to_payment
                 /\ payment_integration'.next_payment_id
                        = payment_integration.next_payment_id]_vars
\* C37: in every reachable state the payment table holds a payment exactly
\* for the ids 0 .. next_payment_id - 1, the transaction index maps t to i
\* exactly when payment i has transaction_id t, and no two payments share a
\* transaction_id.
C37_TableAndIndexAgree ==
    LET payments == payment_integration.payments
        index == payment_integration.transaction_to_payment
    IN  /\ DOMAIN payments = 0 .. payment_integration.next_payment_id - 1
        /\ \A t \in DOMAIN index :
               index[t] \in DOMAIN payments /\ payments[index[t]].transaction_id = t
        /\ \A i \in DOMAIN payments :
               /\ payments[i].transaction_id \in DOMAIN index
               /\ index[payments[i].transaction_id] = i
        /\ \A i \in DOMAIN payments, j \in DOMAIN payments :
               payments[i].transaction_id = payments[j].transaction_id => i = j
\* C38: the set of authorized processors only grows: the owner is an
\* authorized processor in every reachable state, an address that is
\* authorized is authorized after every step, and an address becomes
\* authorized only in a successful authorize_processor that names it (after
\* construction the owner alone is authorized).
C38_ProcessorsOnlyGrow ==
    /\ \A account \in Address :
           is_authorized_processor(payment_integration, account)
               <=> account = payment_integration.owner
    /\ [](is_authorized_processor(payment_integration, payment_integration.owner))
    /\ [][\A account \in Address :
              LET before == is_authorized_processor(payment_integration, account)
                  after == is_authorized_processor(payment_integration', account)
              IN  /\ before => after
                  /\ (~before /\ after)
                         => /\ Called("payment_integration", "authorize_processor")
                            /\ last'.result = "Ok"
                            /\ events'[1].processor = account]_vars

\* the owner has just authorized the other address
C38_Witness ==
    /\ is_authorized_processor(payment_integration, 2)
    /\ payment_integration.owner # 2
    /\ last.message = "authorize_processor" /\ last.result = "Ok"
    /\ events[1].processor = 2
\* C39: the tables of the Access Registry are independent: a step of
\* grant_entitlement or revoke_entitlement changes at most the entitlement of
\* the account it names and no session, scope requirement or store address;
\* a step of set_scope_requirement or set_attribute_store changes no
\* entitlement and no session, so a session issued for a scope stays stored
\* and unrevoked when the scope is deactivated or overwritten; a step of
\* create_session, request_session or revoke_session changes no entitlement
\* and no scope requirement, and revoke_session changes at most the is_revoked
\* field of the session it names.
C39_TablesIndependent ==
    [][LET before == access_registry
           after == access_registry'
           Step(messages) == \E message \in messages :
                                 Called("access_registry", message)
       IN  /\ Step({"grant_entitlement", "revoke_entitlement"}) =>
                  /\ after.sessions = before.sessions
                  /\ after.scope_requirements = before.scope_requirements
                  /\ after.attribute_store = before.attribute_store
                  /\ \A account \in Address :
                         get_entitlement(after, account)
                                 # get_entitlement(before, account)
                             => last'.result = "Ok" /\ events'[1].account = account
           /\ Step({"set_scope_requirement", "set_attribute_store"}) =>
                  /\ after.entitlements = before.entitlements
                  /\ after.sessions = before.sessions
           /\ Step({"create_session", "request_session", "revoke_session"}) =>
                  /\ after.entitlements = before.entitlements
                  /\ after.scope_requirements = before.scope_requirements
           /\ Step({"revoke_session"}) =>
                  /\ DOMAIN after.sessions = DOMAIN before.sessions
                  /\ \A id \in DOMAIN before.sessions :
                         after.sessions[id] # before.sessions[id]
                             => /\ last'.result = "Ok"
                                /\ events'[1].session_id = id
                                /\ after.sessions[id]
                                       = [before.sessions[id] EXCEPT
                                              !.is_revoked = TRUE]]_vars

\* the scope was just deactivated while a session requested for it is stored
\* unrevoked and the account holds an entitlement
C39_Witness ==
    /\ last.message = "set_scope_requirement" /\ last.result = "Ok"
    /\ ~get_scope_requirement(access_registry, 3)[1].active
    /\ get_entitlement(access_registry, 2) = "Premium"
    /\ \E id \in DOMAIN access_registry.sessions :
           /\ access_registry.sessions[id].scope_id = 3
           /\ access_registry.sessions[id].expires_at_block = 100
           /\ ~access_registry.sessions[id].is_revoked
\* C40: request_session never stores a grant whose expires_at_block is
\* smaller than its created_at_block: for every duration_blocks of the
\* unsigned 64-bit range, when the current block plus duration_blocks exceeds
\* the largest u64 the call commits no session with a wrapped expiry.
C40_NoWrappedExpiry ==
    \A caller \in Address, scope_id \in ScopeIds,
       duration_blocks \in Durations \cup {MaxDuration},
       proofs \in {<<>>, <<ProofA, ProofB>>}, root \in Roots :
        LET out == request_session(access_registry, caller, 33, scope_id,
                                   duration_blocks, proofs, root)
        IN  /\ out.result = "Ok" =>
                   get_session(out.storage, out.ret)[1].expires_at_block
                       >= get_session(out.storage, out.ret)[1].created_at_block
            /\ block_number + duration_blocks > U64_MAX
                   => out.storage = access_registry
====
